---- MODULE Spec2Model ----
(***************************************************************************)
(* Location enrichment engine of modules/preprocessing_distance.py:        *)
(* normalise_street_name, load_cache / save_cache, geocode_address,        *)
(* find_nearest_mrt, get_mrt_with_retry, get_location_data_from_onemap and *)
(* enrich_with_location_data, as one run of enrich_with_location_data.     *)
(*                                                                         *)
(* Representation.                                                         *)
(*  - A street name is the sequence of its whitespace-delimited words      *)
(*    (what str.split() yields); a joined string is a TLA+ string.         *)
(*  - An optional value (None / NaN / null) is the empty sequence, a       *)
(*    present value v is <<v>>.                                            *)
(*  - Coordinates are small integers; great_circle(...).km is the          *)
(*    Manhattan distance of two points.  search_radius_km 2.0 / 5.0 are    *)
(*    the integers 2 / 5.                                                  *)
(*  - Time is counted in units of 0.125 s, so that API_DELAY_SEC * 0.5 is  *)
(*    an integer.                                                          *)
(*  - The external service is the environment: each request gets one of    *)
(*    the responses of GeocodeResponses / MrtResponses.                    *)
(***************************************************************************)
EXTENDS Integers, Sequences, FiniteSets, TLC

VARIABLES
    records,          \* df: the input records, in order
    cacheFile,        \* the cache file on disk
    table,            \* sg_zipcode_mapper.csv (hdb_coordinates), in row order
    pc,               \* position of the run
    unique_addresses, \* df[[block, clean_street_name, address_key]].drop_duplicates()
    location_cache,   \* the in-memory cache dictionary
    processed_keys,   \* set(location_cache.keys()) taken right after the load
    with_coords,      \* addresses_with_coords, in row order
    without_coords,   \* addresses_without_coords, in row order
    stats,            \* the stats dictionary
    phase,            \* which processing loop is running: "A" (MRT only) or "B"
    idx,              \* index of the current row of the running loop
    attempt,          \* geocode_address: the loop variable attempt
    cur,              \* the address in flight: key, block, street, lat, lon
    mrt_data,         \* the dictionary get_mrt_with_retry returned
    trace,            \* history: requests, sleeps and raises of the address in flight
    lookups,          \* history: address key -> number of lookup sequences started
    netKeys,          \* history: address keys a network request was issued for
    mrtRadii,         \* history: address key -> radii of its proximity requests, in order
    final_df,         \* the returned table
    coverage_stats,   \* the returned statistics (<<>> until returned)
    error,            \* the exception that ended the run ("" if none)
    env,              \* the external service: "any" answer, or a "scripted" one
    pure,             \* a function under test alone: <<>>, or [fn, arg, res, done]
    prev,             \* <<>> in a first run; in a re-run, how the first run ended
    token             \* whether ONEMAP_API_TOKEN is set in the environment

vars == <<records, cacheFile, table, pc, unique_addresses, location_cache,
          processed_keys, with_coords, without_coords, stats, phase, idx,
          attempt, cur, mrt_data, trace, lookups, netKeys, mrtRadii,
          final_df, coverage_stats, error, env, pure, prev, token>>

----------------------------------------------------------------------------
(* Bounds and program constants *)

MaxRecords == 3
MaxStations == 3          \* stations in one proximity response
FlushRecords == 104       \* records of the long run, one address each

API_DELAY_SEC == 2        \* 0.25 s, in units of 0.125 s
MaxAttempts == 3          \* range(3)
Tier1RadiusM == 2000
Tier2RadiusM == 5000
SaveEvery == 100

Null == <<>>
Some(v) == <<v>>

----------------------------------------------------------------------------
(* Sequence helpers *)

RECURSIVE FilterSeq(_, _)
\* df[mask]: the rows of s whose position is TRUE in the boolean mask keep
FilterSeq(s, keep) ==
    IF s = <<>> THEN <<>>
    ELSE (IF keep[1] THEN <<Head(s)>> ELSE <<>>)
         \o FilterSeq(Tail(s), Tail(keep))

RECURSIVE Flatten(_)
Flatten(ss) == IF ss = <<>> THEN <<>> ELSE Head(ss) \o Flatten(Tail(ss))

RECURSIVE SetToSeq(_)
SetToSeq(S) ==
    IF S = {} THEN <<>>
    ELSE LET x == CHOOSE y \in S : TRUE IN <<x>> \o SetToSeq(S \ {x})

\* Series.sum() of a boolean column
CountTrue(mask) == Cardinality({i \in 1..Len(mask) : mask[i]})

\* DataFrame.drop_duplicates(): keeps the first occurrence of each row
DropDuplicates(s) ==
    FilterSeq(s, [i \in 1..Len(s) |-> \A j \in 1..(i-1) : s[j] # s[i]])

----------------------------------------------------------------------------
(* Address Normaliser *)

\* A Python string is the sequence of its characters; Str gives the string
\* a character sequence spells
RECURSIVE Str(_)
Str(chars) == IF chars = <<>> THEN "" ELSE Head(chars) \o Str(Tail(chars))

\* mutant: the full form of ST is itself a key of the table
AbbrevPairs_Chained ==
    { << <<"S","T">>, <<"E","S","T">> >>,
      << <<"E","S","T">>, <<"E","S","T","A","T","E">> >>,
      << <<"A","V","E">>, <<"A","V","E","N","U","E">> >> }

\* the items of STREET_ABBREVIATIONS, spelled out
AbbrevPairs ==
    {
      << <<"A","V","E">>, <<"A","V","E","N","U","E">> >>,
      << <<"S","T">>, <<"S","T","R","E","E","T">> >>,
      << <<"R","D">>, <<"R","O","A","D">> >>,
      << <<"J","L","N">>, <<"J","A","L","A","N">> >>,
      << <<"L","O","R">>, <<"L","O","R","O","N","G">> >>,
      << <<"B","L","V","D">>, <<"B","O","U","L","E","V","A","R","D">> >>,
      << <<"C","L">>, <<"C","L","O","S","E">> >>,
      << <<"C","R","E","S">>, <<"C","R","E","S","C","E","N","T">> >>,
      << <<"C","T">>, <<"C","O","U","R","T">> >>,
      << <<"D","R">>, <<"D","R","I","V","E">> >>,
      << <<"G","R">>, <<"G","R","O","V","E">> >>,
      << <<"L","K">>, <<"L","I","N","K">> >>,
      << <<"P","L">>, <<"P","L","A","C","E">> >>,
      << <<"P","K">>, <<"P","A","R","K">> >>,
      << <<"S","Q">>, <<"S","Q","U","A","R","E">> >>,
      << <<"T","E","R">>, <<"T","E","R","R","A","C","E">> >>,
      << <<"T","G">>, <<"T","A","N","J","O","N","G">> >>,
      << <<"B","T">>, <<"B","U","K","I","T">> >>,
      << <<"U","P","P">>, <<"U","P","P","E","R">> >>,
      << <<"C","T","R","L">>, <<"C","E","N","T","R","A","L">> >>,
      << <<"N","T","H">>, <<"N","O","R","T","H">> >>,
      << <<"S","T","H">>, <<"S","O","U","T","H">> >>,
      << <<"E","S","T">>, <<"E","S","T","A","T","E">> >>,
      << <<"C","'","W","E","A","L","T","H">>, <<"C","O","M","M","O","N","W","E","A","L","T","H">> >>,
      << <<"C","W","E","A","L","T","H">>, <<"C","O","M","M","O","N","W","E","A","L","T","H">> >>
    }

STREET_ABBREVIATIONS ==
    [w \in {Str(p[1]) : p \in AbbrevPairs} |->
        Str((CHOOSE p \in AbbrevPairs : Str(p[1]) = w)[2])]

\* str.upper() on the words of the model's vocabulary
LowerWords == [w \in {"Bishan", "bishan", "st", "Street", "04 to 06", "Model A"} |->
        CASE w = "Bishan" -> "BISHAN"
          [] w = "bishan" -> "BISHAN"
          [] w = "st"     -> "ST"
          [] w = "Street" -> "STREET"
          [] w = "04 to 06" -> "04 TO 06"
          [] w = "Model A"  -> "MODEL A"]

Upper(w) == IF w \in DOMAIN LowerWords THEN LowerWords[w] ELSE w

RECURSIVE Join(_)
\* ' '.join(words)
Join(words) ==
    IF words = <<>> THEN ""
    ELSE IF Len(words) = 1 THEN words[1]
    ELSE words[1] \o " " \o Join(Tail(words))

ExpandWord(w) ==
    IF w \in DOMAIN STREET_ABBREVIATIONS THEN STREET_ABBREVIATIONS[w] ELSE w

normalise_street_name(street_name) ==
    IF street_name = Null THEN ""
    ELSE Join([i \in 1..Len(street_name) |-> ExpandWord(Upper(street_name[i]))])

AddressKey(block, clean_street_name) == block \o " " \o clean_street_name

\* the same function on character strings: str.strip, str.upper, str.split
\* and ' '.join as Python computes them
Whitespace == {" ", "\t"}

LowerLetters == <<"a","b","c","d","e","f","g","h","i","j","k","l","m","n","o","p","q","r","s","t","u","v","w","x","y","z">>
UpperLetters == <<"A","B","C","D","E","F","G","H","I","J","K","L","M","N","O","P","Q","R","S","T","U","V","W","X","Y","Z">>

IsLower(c) == \E i \in DOMAIN LowerLetters : LowerLetters[i] = c
IsUpper(c) == \E i \in DOMAIN UpperLetters : UpperLetters[i] = c

\* str.upper() on one character
UpperChar(c) ==
    IF IsLower(c)
    THEN UpperLetters[CHOOSE i \in DOMAIN LowerLetters : LowerLetters[i] = c]
    ELSE c

\* mutant: the name is not uppercased
str_upper_Unchanged(s) == s

str_upper(s) == [i \in 1..Len(s) |-> UpperChar(s[i])]

RECURSIVE str_lstrip(_)
str_lstrip(s) ==
    IF s # <<>> /\ Head(s) \in Whitespace THEN str_lstrip(Tail(s)) ELSE s

RECURSIVE str_rstrip(_)
str_rstrip(s) ==
    IF s # <<>> /\ s[Len(s)] \in Whitespace
    THEN str_rstrip(SubSeq(s, 1, Len(s) - 1))
    ELSE s

str_strip(s) == str_rstrip(str_lstrip(s))

RECURSIVE SplitFrom(_, _)
\* str.split(): the maximal runs of non-whitespace characters; word is the
\* run being read
SplitFrom(s, word) ==
    IF s = <<>> THEN (IF word = <<>> THEN <<>> ELSE <<word>>)
    ELSE IF Head(s) \in Whitespace
         THEN (IF word = <<>> THEN <<>> ELSE <<word>>) \o SplitFrom(Tail(s), <<>>)
         ELSE SplitFrom(Tail(s), Append(word, Head(s)))

str_split(s) == SplitFrom(s, <<>>)

RECURSIVE str_join(_)
\* ' '.join(words)
str_join(words) ==
    IF words = <<>> THEN <<>>
    ELSE IF Len(words) = 1 THEN words[1]
    ELSE words[1] \o <<" ">> \o str_join(Tail(words))

\* STREET_ABBREVIATIONS.get(word, word)
ExpandChars(word) ==
    IF \E p \in AbbrevPairs : p[1] = word
    THEN (CHOOSE p \in AbbrevPairs : p[1] = word)[2]
    ELSE word

\* normalise_street_name on a raw value: Null (None/NaN) or <<characters>>
normalise_street_name_chars(street_name) ==
    IF street_name = Null THEN <<>>
    ELSE LET name == str_upper(str_strip(street_name[1]))
             words == str_split(name)
             expanded_words == [i \in 1..Len(words) |-> ExpandChars(words[i])]
         IN  str_join(expanded_words)

\* df['block'].astype(str) + ' ' + df['clean_street_name'] on character strings
AddressKeyChars(block, clean_street_name) == block \o <<" ">> \o clean_street_name

----------------------------------------------------------------------------
(* Inputs of a run *)

RawRecords ==
    { [block |-> "10", street_name |-> <<"BISHAN", "ST">>],
      [block |-> "10", street_name |-> <<"Bishan", "STREET">>],
      [block |-> "20", street_name |-> <<"BISHAN", "ST">>] }

RecordSeqs == UNION {[1..n -> RawRecords] : n \in 0..MaxRecords}

Key10 == "10 BISHAN STREET"
Key20 == "20 BISHAN STREET"
Keys == {Key10, Key20}

\* mutant: the entry does not carry the block
Entry_NoBlock(block, street, lat, lon, mrt) ==
    [block |-> "", street_name |-> street, latitude |-> lat,
     longitude |-> lon, nearest_mrt |-> mrt.nearest_mrt,
     dist_mrt_km |-> mrt.dist_mrt_km,
     search_radius_km |-> mrt.search_radius_km]

\* the dictionary stored for an address: result of lines 474-480 and 325-331
Entry(block, street, lat, lon, mrt) ==
    [block |-> block, street_name |-> street, latitude |-> lat,
     longitude |-> lon, nearest_mrt |-> mrt.nearest_mrt,
     dist_mrt_km |-> mrt.dist_mrt_km,
     search_radius_km |-> mrt.search_radius_km]

NoMrt == [nearest_mrt |-> Null, dist_mrt_km |-> Null, search_radius_km |-> Null]

\* what an earlier run left in the cache file for each key
PriorEntry(k) ==
    IF k = Key10
    THEN Entry("10", "BISHAN STREET", 7, 7,
               [nearest_mrt |-> Some("BISHAN MRT"), dist_mrt_km |-> Some(1),
                search_radius_km |-> Some(2)])
    ELSE Entry("20", "BISHAN STREET", 8, 8, NoMrt)

\* JSON text, value by value: a string, a number, or the token NaN that
\* json.dump writes for float('nan') and json.load reads back as float('nan')
JsonString(s) == [json |-> "string", value |-> s]
JsonNumber(n) == [json |-> "number", value |-> n]
JsonNaN == [json |-> "NaN"]

\* mutant: a serialiser that fills a missing value with "" or 0
JsonOptional_Filled(v, kind) ==
    IF kind = "string" THEN JsonString(IF v = Null THEN "" ELSE v[1])
    ELSE JsonNumber(IF v = Null THEN 0 ELSE v[1])

\* json.dump of a field that holds np.nan or a value
JsonOptional(v, kind) ==
    IF v = Null THEN JsonNaN
    ELSE IF kind = "string" THEN JsonString(v[1]) ELSE JsonNumber(v[1])

\* json.dump of one cache entry
JsonObject(e) ==
    [block |-> JsonString(e.block),
     street_name |-> JsonString(e.street_name),
     latitude |-> JsonNumber(e.latitude),
     longitude |-> JsonNumber(e.longitude),
     nearest_mrt |-> JsonOptional(e.nearest_mrt, "string"),
     dist_mrt_km |-> JsonOptional(e.dist_mrt_km, "number"),
     search_radius_km |-> JsonOptional(e.search_radius_km, "number")]

\* json.dump(cache): the text of the file, one object per key
JsonDump(cache) == [k \in DOMAIN cache |-> JsonObject(cache[k])]

\* json.load of one value that may be the token NaN
ParseOptional(tok) == IF tok.json = "NaN" THEN Null ELSE Some(tok.value)

\* json.load of one cache entry
ParseObject(o) ==
    [block |-> o.block.value,
     street_name |-> o.street_name.value,
     latitude |-> o.latitude.value,
     longitude |-> o.longitude.value,
     nearest_mrt |-> ParseOptional(o.nearest_mrt),
     dist_mrt_km |-> ParseOptional(o.dist_mrt_km),
     search_radius_km |-> ParseOptional(o.search_radius_km)]

\* json.load(f) of a file that holds an object of entries
JsonLoad(text) == [k \in DOMAIN text |-> ParseObject(text[k])]

\* The cache file: absent, unparseable (json.JSONDecodeError), parseable but
\* not a JSON object (a list), or the object an earlier run has written.
CacheFiles ==
    { [state |-> st, data |-> <<>>] : st \in {"absent", "corrupt", "notobject"} }
    \cup { [state |-> "valid", data |-> JsonDump([k \in S |-> PriorEntry(k)])] :
               S \in SUBSET Keys }

TableRow(blk, road, lat, lon) ==
    [blk_no |-> blk, road_name |-> road, latitude |-> lat, longitude |-> lon]

Row10a == TableRow("10", "BISHAN STREET", Some(1), Some(1))
Row10b == TableRow("10", "BISHAN STREET", Some(2), Some(1))
Row20 == TableRow("20", "BISHAN STREET", Some(4), Some(4))
Row20NoLat == TableRow("20", "BISHAN STREET", Null, Some(4))
Row20Abbrev == TableRow("20", "BISHAN ST", Some(4), Some(4))

Tables ==
    { <<>>, <<Row10a>>, <<Row10a, Row10b>>, <<Row20>>, <<Row20NoLat>>,
      <<Row10a, Row20>>, <<Row20NoLat, Row20>>, <<Row20Abbrev>> }

----------------------------------------------------------------------------
(* The external service *)

GeocodeResponses ==
    { [kind |-> "error", results |-> <<>>],
      [kind |-> "ok", results |-> <<>>],
      [kind |-> "ok", results |-> <<[LATITUDE |-> 3, LONGITUDE |-> 3]>>] }

Station(name, lat, lon) == [name |-> name, lat |-> lat, lon |-> lon]

MrtResponses ==
    { [kind |-> "error", data |-> <<>>],
      [kind |-> "ok", data |-> <<>>],
      [kind |-> "ok", data |-> <<Station("BISHAN MRT", 3, 4)>>],
      [kind |-> "ok", data |-> <<Station("ANG MO KIO MRT", 6, 6),
                                 Station("BISHAN MRT", 3, 4)>>] }

\* The service of the long run answers by the number n of the row in
\* progress: the rows take turns in finding a station at 2 km, at 5 km only,
\* and not at all,
ScriptedMrt(n, radius_m) ==
    CASE n % 3 = 1 -> [kind |-> "ok", data |-> <<Station("BISHAN MRT", 3, 4)>>]
      [] n % 3 = 2 -> IF radius_m = Tier1RadiusM
                      THEN [kind |-> "ok", data |-> <<>>]
                      ELSE [kind |-> "ok", data |-> <<Station("BISHAN MRT", 3, 4)>>]
      [] n % 3 = 0 -> IF radius_m = Tier1RadiusM
                      THEN [kind |-> "error", data |-> <<>>]
                      ELSE [kind |-> "ok", data |-> <<>>]

\* and in being geocoded, being unknown after one transport failure, and
\* failing three times
ScriptedGeocode(n, a) ==
    CASE n % 3 = 1 -> [kind |-> "ok", results |-> <<[LATITUDE |-> 3, LONGITUDE |-> 3]>>]
      [] n % 3 = 2 -> IF a = 0 THEN [kind |-> "error", results |-> <<>>]
                      ELSE [kind |-> "ok", results |-> <<>>]
      [] n % 3 = 0 -> [kind |-> "error", results |-> <<>>]

\* the answers a geocoding request can get
GeocodeAnswers(e, n, a) ==
    IF e = "scripted" THEN {ScriptedGeocode(n, a)} ELSE GeocodeResponses

\* the answers a proximity request can get
MrtAnswers(e, n, radius_m) ==
    IF e = "scripted" THEN {ScriptedMrt(n, radius_m)} ELSE MrtResponses

----------------------------------------------------------------------------
(* Location Cache *)

\* load_cache: [raised |-> an exception escaped, cache |-> the returned value].
\* A parseable file that holds no object is returned as it is (a list);
\* the caller's location_cache.keys() then raises AttributeError.
load_cache(file) ==
    CASE file.state = "absent"    -> [isdict |-> TRUE, cache |-> <<>>]
      [] file.state = "corrupt"   -> [isdict |-> TRUE, cache |-> <<>>]
      [] file.state = "notobject" -> [isdict |-> FALSE, cache |-> <<>>]
      [] file.state = "valid"     -> [isdict |-> TRUE, cache |-> JsonLoad(file.data)]

\* mutant: the write stops after open(path, 'w') has emptied the file
save_cache_Truncated(cache) == [state |-> "corrupt", data |-> <<>>]

\* save_cache: the file after json.dump(cache)
save_cache(cache) == [state |-> "valid", data |-> JsonDump(cache)]

----------------------------------------------------------------------------
(* Geocoding Client *)

\* mutant: a fixed delay instead of the exponential backoff
BackoffDelay_Fixed(a) == API_DELAY_SEC

\* mutant: the retry test is off by one, the error is raised after two attempts
GeocodeRetries_OffByOne(a) == a < MaxAttempts - 2

\* the delay slept after failed attempt number a
BackoffDelay(a) == API_DELAY_SEC * (2 ^ a)

\* the except branch of geocode_address: retry while attempt < 2, else raise
GeocodeRetries(a) == a < MaxAttempts - 1

\* the try body of geocode_address on a response that is no transport error
GeocodeResult(resp) ==
    IF resp.results = <<>> THEN Null
    ELSE Some([lat |-> resp.results[1].LATITUDE, lon |-> resp.results[1].LONGITUDE])

----------------------------------------------------------------------------
(* Proximity Search Engine *)

Abs(x) == IF x < 0 THEN -x ELSE x

\* great_circle(flat_coords, station_coords).km
great_circle(lat1, lon1, lat2, lon2) == Abs(lat1 - lat2) + Abs(lon1 - lon2)

RECURSIVE NearestLoop_LastOfTies(_, _, _, _)
\* mutant: the comparison is <=, so the last of several equidistant stations wins
NearestLoop_LastOfTies(lat, lon, data, best) ==
    IF data = <<>> THEN best
    ELSE LET station == Head(data)
             dist_km == great_circle(lat, lon, station.lat, station.lon)
         IN  NearestLoop_LastOfTies(lat, lon, Tail(data),
                 IF best = Null \/ dist_km <= best[1].distance_km
                 THEN Some([name |-> station.name, distance_km |-> dist_km])
                 ELSE best)

RECURSIVE NearestLoop(_, _, _, _)
\* the for loop of find_nearest_mrt: best is Null (distance inf) or <<[name, dist]>>
NearestLoop(lat, lon, data, best) ==
    IF data = <<>> THEN best
    ELSE LET station == Head(data)
             dist_km == great_circle(lat, lon, station.lat, station.lon)
         IN  NearestLoop(lat, lon, Tail(data),
                 IF best = Null \/ dist_km < best[1].distance_km
                 THEN Some([name |-> station.name, distance_km |-> dist_km])
                 ELSE best)

\* find_nearest_mrt: "error" for a raised OneMapAPIError, else Null (None)
\* or <<[name, distance_km]>>
find_nearest_mrt(lat, lon, resp) ==
    IF resp.kind = "error" THEN [raised |-> TRUE, value |-> Null]
    ELSE IF resp.data = <<>> THEN [raised |-> FALSE, value |-> Null]
    ELSE LET best == NearestLoop(lat, lon, resp.data, Null)
         IN  IF best # Null /\ best[1].name # ""
             THEN [raised |-> FALSE, value |-> best]
             ELSE [raised |-> FALSE, value |-> Null]

\* mutant: the station is reported by its name alone
MrtFound_NameOnly(mrt_result, radius_km) ==
    [nearest_mrt |-> Some(mrt_result.name),
     dist_mrt_km |-> Null,
     search_radius_km |-> Null]

\* the dictionary get_mrt_with_retry returns for a station found in a tier
MrtFound(mrt_result, radius_km) ==
    [nearest_mrt |-> Some(mrt_result.name),
     dist_mrt_km |-> Some(mrt_result.distance_km),
     search_radius_km |-> Some(radius_km)]

\* get_mrt_with_retry, tier 1: whether the function returns after the 2 km search
Tier1Returns(r) == ~r.raised /\ r.value # Null

\* mutant: tier 2 reports the tier-1 radius
Tier2Result_WrongRadius(r) ==
    IF ~r.raised /\ r.value # Null THEN MrtFound(r.value[1], 2) ELSE NoMrt

\* get_mrt_with_retry, tier 2: the value returned after the 5 km search
Tier2Result(r) ==
    IF ~r.raised /\ r.value # Null THEN MrtFound(r.value[1], 5) ELSE NoMrt

----------------------------------------------------------------------------
(* Enrichment Orchestrator: pure parts *)

\* Step 1: one row [block, clean_street_name, address_key] per record
KeyedRow(r) ==
    LET clean == normalise_street_name(r.street_name)
    IN  [block |-> r.block, clean_street_name |-> clean,
         address_key |-> AddressKey(r.block, clean)]

KeyedRows(df) == [i \in 1..Len(df) |-> KeyedRow(df[i])]

UniqueAddresses(df) == DropDuplicates(KeyedRows(df))

\* hdb_coordinates['address_key'] = blk_no + ' ' + road_name
TableKey(row) == AddressKey(row.blk_no, row.road_name)

\* unique_addresses.merge(hdb_coordinates[...], on='address_key', how='left'):
\* one row per matching table row, in table order, or one row with null
\* coordinates when no table row matches
MergeLeft(uniq, tbl) ==
    Flatten([i \in 1..Len(uniq) |->
        LET u == uniq[i]
            hits == FilterSeq(tbl, [j \in 1..Len(tbl) |->
                                        TableKey(tbl[j]) = u.address_key])
        IN  IF hits = <<>>
            THEN <<[block |-> u.block, clean_street_name |-> u.clean_street_name,
                    address_key |-> u.address_key,
                    latitude |-> Null, longitude |-> Null]>>
            ELSE [j \in 1..Len(hits) |->
                    [block |-> u.block, clean_street_name |-> u.clean_street_name,
                     address_key |-> u.address_key,
                     latitude |-> hits[j].latitude,
                     longitude |-> hits[j].longitude]]])

\* mutant: the partition forgets the cache filter
NotProcessed_NoFilter(row, processed) == TRUE

\* the mask ~df_merge['address_key'].isin(processed_keys)
NotProcessed(row, processed) == row.address_key \notin processed

AddressesWithCoords(df_merge, processed) ==
    FilterSeq(df_merge, [i \in 1..Len(df_merge) |->
        /\ df_merge[i].latitude # Null
        /\ df_merge[i].longitude # Null
        /\ NotProcessed(df_merge[i], processed)])

\* mutant: the second partition forgets the cache filter
AddressesWithoutCoords_NoFilter(df_merge, processed) ==
    FilterSeq(df_merge, [i \in 1..Len(df_merge) |->
        df_merge[i].latitude = Null \/ df_merge[i].longitude = Null])

AddressesWithoutCoords(df_merge, processed) ==
    FilterSeq(df_merge, [i \in 1..Len(df_merge) |->
        /\ (df_merge[i].latitude = Null \/ df_merge[i].longitude = Null)
        /\ NotProcessed(df_merge[i], processed)])

ZeroStats ==
    [total_processed |-> 0, has_coords |-> 0, no_coords |-> 0,
     geocode_success |-> 0, geocode_failed |-> 0, mrt_2km |-> 0,
     mrt_5km |-> 0, no_mrt |-> 0, api_calls_saved |-> 0]

\* already_cached, the first of the three reported counts
AlreadyCached(uniq, withc, without) == Len(uniq) - Len(withc) - Len(without)

\* the tier counters updated for a committed result
CountTier(st, result) ==
    IF result.search_radius_km # Null
    THEN IF result.search_radius_km = Some(2)
         THEN [st EXCEPT !.mrt_2km = @ + 1]
         ELSE IF result.search_radius_km = Some(5)
              THEN [st EXCEPT !.mrt_5km = @ + 1]
              ELSE st
    ELSE [st EXCEPT !.no_mrt = @ + 1]

\* a successful row: stats['geocode_success'] += 1 and the tier counters
CountSuccess(st, result) ==
    CountTier([st EXCEPT !.geocode_success = @ + 1], result)

\* mutant: a failed row is not counted
CountFailure_NotCounted(st) == st

\* a row whose result is None: stats['geocode_failed'] += 1
CountFailure(st) == [st EXCEPT !.geocode_failed = @ + 1]

\* mutant: a result without a station is not stored
CachePut_OnlyWithStation(cache, key, result) ==
    IF result.nearest_mrt = Null THEN cache
    ELSE [k \in DOMAIN cache \cup {key} |-> IF k = key THEN result ELSE cache[k]]

\* location_cache[key] = result
CachePut(cache, key, result) ==
    [k \in DOMAIN cache \cup {key} |-> IF k = key THEN result ELSE cache[k]]

\* mutant: the loops never save, only the final save is left
IntermediateSave_Never(st, cache, file) == file

\* the intermediate save of a loop iteration
IntermediateSave(st, cache, file) ==
    IF st.total_processed % SaveEvery = 0 THEN save_cache(cache) ELSE file

Ev(e, a, o) == [ev |-> e, arg |-> a, out |-> o]

Sleep(d) == Ev("sleep", d, "")

\* Step 4: location_features, the deduplicated rows of the cache values,
\* keyed by block + ' ' + street_name of each value
LocationFeatures(cache) ==
    { [address_key |-> AddressKey(cache[k].block, cache[k].street_name),
       latitude |-> Some(cache[k].latitude),
       longitude |-> Some(cache[k].longitude),
       nearest_mrt |-> cache[k].nearest_mrt,
       dist_mrt_km |-> cache[k].dist_mrt_km,
       search_radius_km |-> cache[k].search_radius_km] : k \in DOMAIN cache }

OutRow(r, lat, lon, mrt, dist, radius) ==
    [block |-> r.block, street_name |-> r.street_name, latitude |-> lat,
     longitude |-> lon, nearest_mrt |-> mrt, dist_mrt_km |-> dist,
     search_radius_km |-> radius]

\* mutant: the merge joins on the street name alone, whatever the block
FinalMerge_OnStreet(df, features) ==
    Flatten([i \in 1..Len(df) |->
        LET hits == SetToSeq({f \in features :
                        \E r \in RawRecords :
                            f.address_key = AddressKey(r.block,
                                                KeyedRow(df[i]).clean_street_name)})
        IN  IF hits = <<>>
            THEN <<OutRow(df[i], Null, Null, Null, Null, Null)>>
            ELSE [j \in 1..Len(hits) |->
                    OutRow(df[i], hits[j].latitude, hits[j].longitude,
                           hits[j].nearest_mrt, hits[j].dist_mrt_km,
                           hits[j].search_radius_km)]])

\* Step 4: df.merge(location_features, on='address_key', how='left')
FinalMerge(df, features) ==
    Flatten([i \in 1..Len(df) |->
        LET hits == SetToSeq({f \in features :
                                f.address_key = KeyedRow(df[i]).address_key})
        IN  IF hits = <<>>
            THEN <<OutRow(df[i], Null, Null, Null, Null, Null)>>
            ELSE [j \in 1..Len(hits) |->
                    OutRow(df[i], hits[j].latitude, hits[j].longitude,
                           hits[j].nearest_mrt, hits[j].dist_mrt_km,
                           hits[j].search_radius_km)]])

\* Step 4 with an empty cache_df: final_df = df, which has none of the
\* location columns, so final_df['dist_mrt_km'] raises KeyError
MergeRaises(cache) == DOMAIN cache = {}

HasMrt(row) == row.dist_mrt_km # Null
Within2(row) == row.search_radius_km = Some(2)
Within5(row) == row.search_radius_km = Some(5)
LacksMrt(row) == row.dist_mrt_km = Null

CoverageStats(out, st) ==
    [total_properties |-> Len(out),
     had_existing_coords |-> st.has_coords,
     needed_geocoding |-> st.no_coords,
     api_calls_saved |-> st.api_calls_saved,
     total_api_calls_made |-> st.has_coords + st.no_coords * 2,
     geocode_success |-> st.geocode_success,
     geocode_failed |-> st.geocode_failed,
     total_has_mrt |-> CountTrue([i \in 1..Len(out) |-> HasMrt(out[i])]),
     within_2km |-> CountTrue([i \in 1..Len(out) |-> Within2(out[i])]),
     between_2_5km |-> CountTrue([i \in 1..Len(out) |-> Within5(out[i])]),
     no_mrt_within_5km |-> CountTrue([i \in 1..Len(out) |-> LacksMrt(out[i])])]

----------------------------------------------------------------------------
(* The run of enrich_with_location_data *)

NoCur == [key |-> "", block |-> "", street |-> "", lat |-> Null, lon |-> Null]

EmptyCache == [k \in {} |-> NoMrt]

\* the state at the call of enrich_with_location_data, for the given cache
\* files, coordinate tables and settings of the token
InitOf(files, tables, tokens) ==
    /\ records \in RecordSeqs
    /\ cacheFile \in files
    /\ table \in tables
    /\ pc = "start"
    /\ unique_addresses = <<>>
    /\ location_cache = EmptyCache
    /\ processed_keys = {}
    /\ with_coords = <<>>
    /\ without_coords = <<>>
    /\ stats = ZeroStats
    /\ phase = "A"
    /\ idx = 1
    /\ attempt = 0
    /\ cur = NoCur
    /\ mrt_data = NoMrt
    /\ trace = <<>>
    /\ lookups = [k \in Keys |-> 0]
    /\ netKeys = {}
    /\ mrtRadii = [k \in Keys |-> <<>>]
    /\ final_df = <<>>
    /\ coverage_stats = Null
    /\ error = ""
    /\ env = "any"
    /\ pure = Null
    /\ prev = Null
    /\ token \in tokens

Init == InitOf(CacheFiles, Tables, {TRUE})

\* Step 1: normalise the street names, build the keys, deduplicate
Step1 ==
    /\ pc = "start"
    /\ unique_addresses' = UniqueAddresses(records)
    /\ pc' = "load"
    /\ UNCHANGED <<prev, token, pure, env, mrtRadii, records, cacheFile, table, location_cache, processed_keys,
                   with_coords, without_coords, stats, phase, idx, attempt,
                   cur, mrt_data, trace, lookups, netKeys, final_df,
                   coverage_stats, error>>

\* location_cache = load_cache(cache_path); processed_keys = set(location_cache.keys())
LoadCache ==
    /\ pc = "load"
    /\ LET loaded == load_cache(cacheFile)
       IN  IF loaded.isdict
           THEN /\ location_cache' = loaded.cache
                /\ processed_keys' = DOMAIN loaded.cache
                /\ pc' = "step2"
                /\ error' = error
           ELSE /\ error' = "AttributeError"
                /\ pc' = "crashed"
                /\ UNCHANGED <<location_cache, processed_keys>>
    /\ UNCHANGED <<prev, token, pure, env, mrtRadii, records, cacheFile, table, unique_addresses, with_coords,
                   without_coords, stats, phase, idx, attempt, cur, mrt_data,
                   trace, lookups, netKeys, final_df, coverage_stats>>

\* Step 2: merge with the coordinate table, partition, initialise stats
Step2 ==
    /\ pc = "step2"
    /\ LET df_merge == MergeLeft(unique_addresses, table)
           withc == AddressesWithCoords(df_merge, processed_keys)
           without == AddressesWithoutCoords(df_merge, processed_keys)
           total_to_process == Len(withc) + Len(without)
       IN  /\ with_coords' = withc
           /\ without_coords' = without
           /\ stats' = [ZeroStats EXCEPT !.api_calls_saved = Len(withc)]
           /\ pc' = IF total_to_process > 0 THEN "loop" ELSE "merge"
    /\ phase' = "A"
    /\ idx' = 1
    /\ UNCHANGED <<prev, token, pure, env, mrtRadii, records, cacheFile, table, unique_addresses, location_cache,
                   processed_keys, attempt, cur, mrt_data, trace, lookups,
                   netKeys, final_df, coverage_stats, error>>

\* loop over addresses_with_coords: the head of one iteration
BeginRowA ==
    /\ pc = "loop" /\ phase = "A" /\ idx <= Len(with_coords)
    /\ LET row == with_coords[idx]
       IN  /\ stats' = [stats EXCEPT !.total_processed = @ + 1,
                                     !.has_coords = @ + 1]
           /\ cur' = [key |-> row.address_key, block |-> row.block,
                      street |-> row.clean_street_name,
                      lat |-> row.latitude, lon |-> row.longitude]
           /\ lookups' = [lookups EXCEPT ![row.address_key] = @ + 1]
    /\ trace' = <<>>
    /\ pc' = "tier1"
    /\ UNCHANGED <<prev, token, pure, env, mrtRadii, records, cacheFile, table, unique_addresses, location_cache,
                   processed_keys, with_coords, without_coords, phase, idx,
                   attempt, mrt_data, netKeys, final_df, coverage_stats, error>>

\* the first loop is exhausted: go on to addresses_without_coords
NextLoop ==
    /\ pc = "loop" /\ phase = "A" /\ idx > Len(with_coords)
    /\ phase' = "B"
    /\ idx' = 1
    /\ UNCHANGED <<prev, token, pure, env, mrtRadii, records, cacheFile, table, pc, unique_addresses,
                   location_cache, processed_keys, with_coords, without_coords,
                   stats, attempt, cur, mrt_data, trace, lookups, netKeys,
                   final_df, coverage_stats, error>>

\* loop over addresses_without_coords: the head of one iteration, up to the
\* first request of geocode_address
BeginRowB ==
    /\ pc = "loop" /\ phase = "B" /\ idx <= Len(without_coords)
    /\ LET row == without_coords[idx]
       IN  /\ stats' = [stats EXCEPT !.total_processed = @ + 1,
                                     !.no_coords = @ + 1]
           /\ cur' = [key |-> row.address_key, block |-> row.block,
                      street |-> row.clean_street_name,
                      lat |-> Null, lon |-> Null]
           /\ lookups' = [lookups EXCEPT ![row.address_key] = @ + 1]
    /\ trace' = <<>>
    /\ attempt' = 0
    /\ pc' = "geocode"
    /\ UNCHANGED <<prev, token, pure, env, mrtRadii, records, cacheFile, table, unique_addresses, location_cache,
                   processed_keys, with_coords, without_coords, phase, idx,
                   mrt_data, netKeys, final_df, coverage_stats, error>>

\* mutant: get_location_data_from_onemap does not catch OneMapAPIError
LocationDataAfterGeocode_NoCatch(geo) ==
    CASE geo = "raised" -> "propagate"
      [] geo = "none"   -> "None"
      [] geo = "coords" -> "mrt"

\* how get_location_data_from_onemap goes on after geocode_address:
\* "raised" (OneMapAPIError) and "none" make it return None
LocationDataAfterGeocode(geo) ==
    CASE geo = "raised" -> "None"
      [] geo = "none"   -> "None"
      [] geo = "coords" -> "mrt"

\* mutant: an empty result is handled like a transport failure
GeocodeOutcome_EmptyIsError(resp, a) ==
    IF resp.kind = "error" \/ resp.results = <<>>
    THEN IF GeocodeRetries(a) THEN "retry" ELSE "raised"
    ELSE "coords"

\* what geocode_address does with the response of attempt number a
GeocodeOutcome(resp, a) ==
    IF resp.kind = "error"
    THEN IF GeocodeRetries(a) THEN "retry" ELSE "raised"
    ELSE IF GeocodeResult(resp) = Null THEN "none" ELSE "coords"

\* what the service answered to a geocoding request
GeocodeResponseClass(resp) ==
    IF resp.kind = "error" THEN "error"
    ELSE IF resp.results = <<>> THEN "empty" ELSE "coords"

\* the trace of one attempt of geocode_address: the request with the
\* service's answer, then what geocode_address did with it
GeocodeEvents(resp, a) ==
    LET o == GeocodeOutcome(resp, a)
    IN  <<Ev("geocode", a, GeocodeResponseClass(resp))>> \o
        CASE o = "retry"  -> <<Sleep(BackoffDelay(a))>>
          [] o = "raised" -> <<Ev("raise", a, "OneMapAPIError")>>
          [] o = "none"   -> <<Ev("return", a, "None")>>
          [] o = "coords" -> <<Ev("return", a, "coords")>>

\* one request of geocode_address and what follows it up to the next request;
\* "propagate" is an exception nothing catches, which ends the run
GeocodeAttempt ==
    /\ pc = "geocode"
    /\ \E resp \in GeocodeAnswers(env, stats.total_processed, attempt) :
        LET o == GeocodeOutcome(resp, attempt)
            next == IF o = "retry" THEN "retry" ELSE LocationDataAfterGeocode(o)
            st == CountFailure(stats)
        IN  /\ netKeys' = netKeys \cup {cur.key}
            /\ CASE next = "retry" ->
                     /\ trace' = trace \o GeocodeEvents(resp, attempt)
                     /\ attempt' = attempt + 1
                     /\ UNCHANGED <<pc, cur, stats, cacheFile, idx, error>>
                 [] next = "mrt" ->
                     /\ trace' = trace \o GeocodeEvents(resp, attempt)
                                       \o <<Sleep(API_DELAY_SEC)>>
                     /\ cur' = [cur EXCEPT !.lat = Some(GeocodeResult(resp)[1].lat),
                                           !.lon = Some(GeocodeResult(resp)[1].lon)]
                     /\ pc' = "tier1"
                     /\ UNCHANGED <<attempt, stats, cacheFile, idx, error>>
                 [] next = "None" ->
                     /\ trace' = trace \o GeocodeEvents(resp, attempt)
                                       \o <<Sleep(API_DELAY_SEC)>>
                     /\ stats' = st
                     /\ cacheFile' = IntermediateSave(st, location_cache, cacheFile)
                     /\ idx' = idx + 1
                     /\ pc' = "loop"
                     /\ UNCHANGED <<attempt, cur, error>>
                 [] next = "propagate" ->
                     /\ trace' = trace \o GeocodeEvents(resp, attempt)
                     /\ error' = "OneMapAPIError"
                     /\ pc' = "crashed"
                     /\ UNCHANGED <<attempt, cur, stats, cacheFile, idx>>
    /\ UNCHANGED <<prev, token, pure, env, mrtRadii, records, table, unique_addresses, location_cache,
                   processed_keys, with_coords, without_coords, phase,
                   mrt_data, lookups, final_df, coverage_stats>>

\* what find_nearest_mrt gave: a raised OneMapAPIError, None or a station
MrtOutcome(r) ==
    IF r.raised THEN "error" ELSE IF r.value = Null THEN "none" ELSE "found"

\* get_mrt_with_retry, tier 1: the 2 km request
Tier1 ==
    /\ pc = "tier1"
    /\ \E resp \in MrtAnswers(env, stats.total_processed, Tier1RadiusM) :
        LET r == find_nearest_mrt(cur.lat[1], cur.lon[1], resp)
        IN  /\ netKeys' = netKeys \cup {cur.key}
            /\ mrtRadii' = [mrtRadii EXCEPT ![cur.key] = Append(@, Tier1RadiusM)]
            /\ IF Tier1Returns(r)
               THEN /\ mrt_data' = MrtFound(r.value[1], 2)
                    /\ trace' = trace \o <<Ev("mrt", Tier1RadiusM, MrtOutcome(r))>>
                    /\ pc' = "commit"
               ELSE /\ mrt_data' = mrt_data
                    /\ trace' = trace \o <<Ev("mrt", Tier1RadiusM, MrtOutcome(r)),
                                           Sleep(API_DELAY_SEC \div 2)>>
                    /\ pc' = "tier2"
    /\ UNCHANGED <<prev, token, pure, env, records, cacheFile, table, unique_addresses, location_cache,
                   processed_keys, with_coords, without_coords, stats, phase,
                   idx, attempt, cur, lookups, final_df, coverage_stats, error>>

\* get_mrt_with_retry, tier 2: the 5 km request and the return
Tier2 ==
    /\ pc = "tier2"
    /\ \E resp \in MrtAnswers(env, stats.total_processed, Tier2RadiusM) :
        LET r == find_nearest_mrt(cur.lat[1], cur.lon[1], resp)
        IN  /\ netKeys' = netKeys \cup {cur.key}
            /\ mrtRadii' = [mrtRadii EXCEPT ![cur.key] = Append(@, Tier2RadiusM)]
            /\ mrt_data' = Tier2Result(r)
            /\ trace' = trace \o <<Ev("mrt", Tier2RadiusM, MrtOutcome(r))>>
            /\ pc' = "commit"
    /\ UNCHANGED <<prev, token, pure, env, records, cacheFile, table, unique_addresses, location_cache,
                   processed_keys, with_coords, without_coords, stats, phase,
                   idx, attempt, cur, lookups, final_df, coverage_stats, error>>

\* the rest of a loop iteration after get_mrt_with_retry returned: build the
\* result, store it, count it, save every SaveEvery rows, sleep
Commit ==
    /\ pc = "commit"
    /\ LET result == Entry(cur.block, cur.street, cur.lat[1], cur.lon[1], mrt_data)
           cache == CachePut(location_cache, cur.key, result)
           st == CountSuccess(stats, result)
       IN  /\ location_cache' = cache
           /\ stats' = st
           /\ cacheFile' = IntermediateSave(st, cache, cacheFile)
    /\ trace' = trace \o <<Ev("commit", 0, cur.key), Sleep(API_DELAY_SEC)>>
    /\ idx' = idx + 1
    /\ pc' = "loop"
    /\ UNCHANGED <<prev, token, pure, env, mrtRadii, records, table, unique_addresses, processed_keys,
                   with_coords, without_coords, phase, attempt, cur, mrt_data,
                   lookups, netKeys, final_df, coverage_stats, error>>

\* both loops are exhausted: the final save_cache
FinishFetch ==
    /\ pc = "loop" /\ phase = "B" /\ idx > Len(without_coords)
    /\ cacheFile' = save_cache(location_cache)
    /\ pc' = "merge"
    /\ UNCHANGED <<prev, token, pure, env, mrtRadii, records, table, unique_addresses, location_cache,
                   processed_keys, with_coords, without_coords, stats, phase,
                   idx, attempt, cur, mrt_data, trace, lookups, netKeys,
                   final_df, coverage_stats, error>>

\* Step 4 and the statistics: merge the cache onto the records and return
Step4 ==
    /\ pc = "merge"
    /\ IF MergeRaises(location_cache)
       THEN /\ error' = "KeyError"
            /\ pc' = "crashed"
            /\ UNCHANGED <<final_df, coverage_stats>>
       ELSE LET out == FinalMerge(records, LocationFeatures(location_cache))
            IN  /\ final_df' = out
                /\ coverage_stats' = Some(CoverageStats(out, stats))
                /\ pc' = "done"
                /\ error' = error
    /\ UNCHANGED <<prev, token, pure, env, mrtRadii, records, cacheFile, table, unique_addresses, location_cache,
                   processed_keys, with_coords, without_coords, stats, phase,
                   idx, attempt, cur, mrt_data, trace, lookups, netKeys>>

Next ==
    \/ Step1
    \/ LoadCache
    \/ Step2
    \/ BeginRowA
    \/ NextLoop
    \/ BeginRowB
    \/ GeocodeAttempt
    \/ Tier1
    \/ Tier2
    \/ Commit
    \/ FinishFetch
    \/ Step4

Spec == Init /\ [][Next]_vars

----------------------------------------------------------------------------
(* The run with interruptions: the process can be killed at any point *)

\* the next step of the run calls save_cache
SaveIsNext ==
    \/ pc = "loop" /\ phase = "B" /\ idx > Len(without_coords)
    \/ pc = "commit" /\ (stats.total_processed + 1) % SaveEvery = 0

\* the process is killed between two steps
Interrupt ==
    /\ pc \notin {"done", "crashed", "interrupted"}
    /\ pc' = "interrupted"
    /\ UNCHANGED <<records, cacheFile, table, unique_addresses, location_cache,
                   processed_keys, with_coords, without_coords, stats, phase,
                   idx, attempt, cur, mrt_data, trace, lookups, netKeys,
                   mrtRadii, final_df, coverage_stats, error, env, pure,
                   prev, token>>

\* the process is killed inside save_cache, after open(cache_path, 'w') has
\* truncated the file and before json.dump has written the whole text: what
\* is left does not parse
InterruptInSave ==
    /\ SaveIsNext
    /\ cacheFile' = [state |-> "corrupt", data |-> <<>>]
    /\ pc' = "interrupted"
    /\ UNCHANGED <<records, table, unique_addresses, location_cache,
                   processed_keys, with_coords, without_coords, stats, phase,
                   idx, attempt, cur, mrt_data, trace, lookups, netKeys,
                   mrtRadii, final_df, coverage_stats, error, env, pure,
                   prev, token>>

NextInterrupt ==
    \/ Next
    \/ Interrupt
    \/ InterruptInSave

SpecInterrupt == Init /\ [][NextInterrupt]_vars

----------------------------------------------------------------------------
(* Two runs: enrich_with_location_data is called again on the same input *)

\* the second call of enrich_with_location_data: same records, same table,
\* the cache file as the first run left it; prev keeps how the first run
\* ended, the table it returned and the file it left
RerunFrom(ended, file) ==
    /\ prev = Null
    /\ prev' = Some([ended |-> ended, final_df |-> final_df, file |-> file])
    /\ cacheFile' = file
    /\ pc' = "start"
    /\ unique_addresses' = <<>>
    /\ location_cache' = EmptyCache
    /\ processed_keys' = {}
    /\ with_coords' = <<>>
    /\ without_coords' = <<>>
    /\ stats' = ZeroStats
    /\ phase' = "A"
    /\ idx' = 1
    /\ attempt' = 0
    /\ cur' = NoCur
    /\ mrt_data' = NoMrt
    /\ trace' = <<>>
    /\ lookups' = [k \in Keys |-> 0]
    /\ netKeys' = {}
    /\ mrtRadii' = [k \in Keys |-> <<>>]
    /\ final_df' = <<>>
    /\ coverage_stats' = Null
    /\ error' = ""
    /\ UNCHANGED <<records, table, env, pure, token>>

\* the first run has returned or raised, and the function is called again
Rerun == pc \in {"done", "crashed"} /\ RerunFrom(pc, cacheFile)

\* the first run is killed between two steps, and the function is called again
KillAndRerun ==
    /\ pc \notin {"done", "crashed", "interrupted"}
    /\ RerunFrom("interrupted", cacheFile)

\* the first run is killed inside save_cache, which leaves a file that does
\* not parse, and the function is called again
KillInSaveAndRerun ==
    /\ SaveIsNext
    /\ RerunFrom("interrupted", [state |-> "corrupt", data |-> <<>>])

NextRerun ==
    \/ Next
    \/ Rerun
    \/ KillAndRerun
    \/ KillInSaveAndRerun

\* the first run starts without a cache file or with one that holds another
\* address; the table is empty, knows one address, or knows it twice
RerunFiles ==
    { [state |-> "absent", data |-> <<>>],
      [state |-> "valid", data |-> JsonDump([k \in {Key20} |-> PriorEntry(k)])] }

RerunTables == { <<>>, <<Row10a>>, <<Row10a, Row10b>> }

InitRerun == InitOf(RerunFiles, RerunTables, {TRUE})

SpecRerun == InitRerun /\ [][NextRerun]_vars

----------------------------------------------------------------------------
(* The run without ONEMAP_API_TOKEN *)

\* headers of a request: the Authorization header only when the token is set
Headers(tok) == IF tok THEN {"Authorization"} ELSE {}

\* The module prints a warning when the token is missing and goes on; the
\* token is read again only to build the headers, so the steps of the run
\* are those of Next.
InitNoToken == InitOf(CacheFiles, Tables, {FALSE})

SpecNoToken == InitNoToken /\ [][Next]_vars

----------------------------------------------------------------------------
(* The long run: more than SaveEvery addresses, a scripted service *)

\* record i of the long run: its own block on one street
FlushRecord(i) == [block |-> ToString(i), street_name |-> <<"BISHAN", "ST">>]

\* the coordinate table knows the first SaveEvery + 1 blocks
FlushTable ==
    [i \in 1..(SaveEvery + 1) |-> TableRow(ToString(i), "BISHAN STREET", Some(1), Some(1))]

FlushKeys == { AddressKey(ToString(i), "BISHAN STREET") : i \in 1..FlushRecords }

InitFlush ==
    /\ records = [i \in 1..FlushRecords |-> FlushRecord(i)]
    /\ cacheFile = [state |-> "absent", data |-> <<>>]
    /\ table = FlushTable
    /\ pc = "start"
    /\ unique_addresses = <<>>
    /\ location_cache = EmptyCache
    /\ processed_keys = {}
    /\ with_coords = <<>>
    /\ without_coords = <<>>
    /\ stats = ZeroStats
    /\ phase = "A"
    /\ idx = 1
    /\ attempt = 0
    /\ cur = NoCur
    /\ mrt_data = NoMrt
    /\ trace = <<>>
    /\ lookups = [k \in FlushKeys |-> 0]
    /\ netKeys = {}
    /\ mrtRadii = [k \in FlushKeys |-> <<>>]
    /\ final_df = <<>>
    /\ coverage_stats = Null
    /\ error = ""
    /\ env = "scripted"
    /\ pure = Null
    /\ prev = Null
    /\ token = TRUE

SpecFlush == InitFlush /\ [][Next]_vars

----------------------------------------------------------------------------
(* find_nearest_mrt alone, over station lists with ties and repeats *)

\* the run variables of a specification that applies one function alone
NoRun ==
    /\ records = <<>>
    /\ cacheFile = [state |-> "absent", data |-> EmptyCache]
    /\ table = <<>>
    /\ pc = "idle"
    /\ unique_addresses = <<>>
    /\ location_cache = EmptyCache
    /\ processed_keys = {}
    /\ with_coords = <<>>
    /\ without_coords = <<>>
    /\ stats = ZeroStats
    /\ phase = "A"
    /\ idx = 1
    /\ attempt = 0
    /\ cur = NoCur
    /\ mrt_data = NoMrt
    /\ trace = <<>>
    /\ lookups = [k \in Keys |-> 0]
    /\ netKeys = {}
    /\ mrtRadii = [k \in Keys |-> <<>>]
    /\ final_df = <<>>
    /\ coverage_stats = Null
    /\ error = ""
    /\ env = "any"
    /\ prev = Null
    /\ token = TRUE

runVars == <<records, cacheFile, table, pc, unique_addresses, location_cache,
             processed_keys, with_coords, without_coords, stats, phase, idx,
             attempt, cur, mrt_data, trace, lookups, netKeys, mrtRadii,
             final_df, coverage_stats, error, env, prev, token>>

\* the stations the service knows; BISHAN and BRADDELL are equidistant from
\* both flats below
NearbyStations ==
    { Station("BISHAN MRT", 3, 4), Station("BRADDELL MRT", 4, 3),
      Station("ANG MO KIO MRT", 6, 6), Station("TOA PAYOH MRT", 1, 2) }

FlatCoords == { [lat |-> 3, lon |-> 3], [lat |-> 1, lon |-> 1] }

StationLists == UNION { [1..n -> NearbyStations] : n \in 0..MaxStations }

NearestInputs ==
    { [lat |-> c.lat, lon |-> c.lon, resp |-> [kind |-> "ok", data |-> d]] :
          c \in FlatCoords, d \in StationLists }
    \cup { [lat |-> c.lat, lon |-> c.lon, resp |-> [kind |-> "error", data |-> <<>>]] :
          c \in FlatCoords }

InitNearest ==
    /\ NoRun
    /\ pure \in { [fn |-> "find_nearest_mrt", arg |-> a,
                    res |-> [raised |-> FALSE, value |-> Null], done |-> FALSE] :
                      a \in NearestInputs }

\* one call find_nearest_mrt(lat, lon, radius) answered by arg.resp
CallFindNearestMrt ==
    /\ pure # Null /\ pure.fn = "find_nearest_mrt" /\ ~pure.done
    /\ pure' = [pure EXCEPT !.res = find_nearest_mrt(pure.arg.lat, pure.arg.lon,
                                                      pure.arg.resp),
                            !.done = TRUE]
    /\ UNCHANGED runVars

SpecNearest == InitNearest /\ [][CallFindNearestMrt]_vars

----------------------------------------------------------------------------
(* normalise_street_name and the address key of Step 1 on raw strings *)

MaxPieces == 3

\* raw street names are built from these pieces
Pieces ==
    { <<"S","t">>, <<"A","v","e">>, <<"S","T","R","E","E","T">>, <<"3">>,
      <<" ">>, <<"\t">> }

RawStrings == { Flatten(ps) : ps \in UNION {[1..n -> Pieces] : n \in 0..MaxPieces} }

RawNames == {Null} \cup {Some(s) : s \in RawStrings}

Blocks == { <<"1","0","A">>, <<"1","0","a">> }

\* the other case of a letter
SwapCase(c) ==
    IF IsLower(c) THEN UpperChar(c)
    ELSE IF IsUpper(c)
         THEN LowerLetters[CHOOSE i \in DOMAIN UpperLetters : UpperLetters[i] = c]
         ELSE c

\* one letter of s in the other case
CaseVariants(s) == { [s EXCEPT ![i] = SwapCase(s[i])] : i \in 1..Len(s) }

InsertAt(s, i, c) == SubSeq(s, 1, i) \o <<c>> \o SubSeq(s, i + 1, Len(s))

\* one whitespace character more at an end of s or next to whitespace, or one
\* whitespace character replaced by another
SpacingVariants(s) ==
    { InsertAt(s, i, c) :
        i \in { j \in 0..Len(s) : \/ j = 0
                                  \/ j = Len(s)
                                  \/ s[j] \in Whitespace
                                  \/ s[j + 1] \in Whitespace },
        c \in Whitespace }
    \cup
    { [s EXCEPT ![i] = c] : i \in { j \in 1..Len(s) : s[j] \in Whitespace },
                            c \in Whitespace }

\* s[i..j] is a whitespace-delimited word of s
IsWordAt(s, i, j) ==
    /\ i <= j
    /\ \A k \in i..j : s[k] \notin Whitespace
    /\ i = 1 \/ s[i - 1] \in Whitespace
    /\ j = Len(s) \/ s[j + 1] \in Whitespace

\* one word of s that is an abbreviation replaced by its full form, or one
\* word that is a full form replaced by its abbreviation
AbbrevVariants(s) ==
    UNION { { SubSeq(s, 1, ij[1] - 1) \o w \o SubSeq(s, ij[2] + 1, Len(s)) :
                w \in { p[2] : p \in { q \in AbbrevPairs :
                            q[1] = str_upper(SubSeq(s, ij[1], ij[2])) } }
                      \cup
                      { p[1] : p \in { q \in AbbrevPairs :
                            q[2] = str_upper(SubSeq(s, ij[1], ij[2])) } } } :
            ij \in { xy \in (1..Len(s)) \X (1..Len(s)) : IsWordAt(s, xy[1], xy[2]) } }

\* the names that differ from street_name in one letter's case, in spacing,
\* or in one abbreviated versus expanded word
Variants(street_name) ==
    IF street_name = Null THEN {Null}
    ELSE LET s == street_name[1]
         IN  { Some(v) : v \in {s} \cup CaseVariants(s) \cup SpacingVariants(s)
                                   \cup AbbrevVariants(s) }

\* mutant: clean_data leaves the block column as it was read
CleanBlock_AsRead(block) == block

\* clean_data: clean_df['block'].astype(str).str.upper()
CleanBlock(block) == str_upper(block)

\* clean_data: clean_df['street_name'].astype(str).str.upper(); a missing
\* value stays missing or becomes the text of NaN, as the column's dtype has it
CleanStreet(street_name, nanAsText) ==
    IF street_name = Null
    THEN (IF nanAsText THEN Some(<<"N","A","N">>) ELSE Null)
    ELSE Some(str_upper(street_name[1]))

\* the block and street_name columns after clean_data
clean_data(df, nanAsText) ==
    [i \in 1..Len(df) |->
        [block |-> CleanBlock(df[i].block),
         street_name |-> CleanStreet(df[i].street_name, nanAsText)]]

\* Step 1 on a table of cleaned records
KeyedRowChars(r) ==
    LET clean == normalise_street_name_chars(r.street_name)
    IN  [block |-> r.block, clean_street_name |-> clean,
         address_key |-> AddressKeyChars(r.block, clean)]

UniqueAddressesChars(df) ==
    DropDuplicates([i \in 1..Len(df) |-> KeyedRowChars(df[i])])

\* one call of fn on street_name, and the two records of Step 1
NormaliseCall(x, b, v) ==
    [fn |-> "normalise_street_name",
     arg |-> [block |-> <<"1","0","A">>, street_name |-> x,
              other_block |-> b, other_street_name |-> v],
     res |-> <<>>, again |-> <<>>, unique_addresses |-> <<>>, step |-> 0]

InitNormalise ==
    /\ NoRun
    /\ pure \in UNION { { NormaliseCall(x, b, v) : b \in Blocks, v \in Variants(x) } :
                          x \in RawNames }

\* normalise_street_name(street_name)
CallNormalise ==
    /\ pure # Null /\ pure.fn = "normalise_street_name" /\ pure.step = 0
    /\ pure' = [pure EXCEPT !.res = normalise_street_name_chars(pure.arg.street_name),
                            !.step = 1]
    /\ UNCHANGED runVars

\* normalise_street_name applied to its own result
CallNormaliseAgain ==
    /\ pure # Null /\ pure.fn = "normalise_street_name" /\ pure.step = 1
    /\ pure' = [pure EXCEPT !.again = normalise_street_name_chars(Some(pure.res)),
                            !.step = 2]
    /\ UNCHANGED runVars

\* preprocess_hdb_data on the two records of arg: clean_data, then Step 1 of
\* enrich_with_location_data
KeyRecords ==
    /\ pure # Null /\ pure.fn = "normalise_street_name" /\ pure.step = 2
    /\ \E nanAsText \in BOOLEAN :
          pure' = [pure EXCEPT
                     !.unique_addresses = UniqueAddressesChars(clean_data(
                         << [block |-> pure.arg.block,
                             street_name |-> pure.arg.street_name],
                            [block |-> pure.arg.other_block,
                             street_name |-> pure.arg.other_street_name] >>,
                         nanAsText)),
                     !.step = 3]
    /\ UNCHANGED runVars

NextNormalise == CallNormalise \/ CallNormaliseAgain \/ KeyRecords

SpecNormalise == InitNormalise /\ [][NextNormalise]_vars

----------------------------------------------------------------------------
(* Flat filter: csp_filter_flats *)

MaxFlats == 3

\* rows of the preprocessed table (string columns uppercased by clean_data);
\* prices in thousands
FlatRows ==
    { [town |-> "BISHAN", flat_type |-> "4 ROOM", resale_price |-> 450,
       floor_area_sqm |-> 90, storey_range |-> "04 TO 06",
       remaining_lease_years |-> 60, flat_model |-> "MODEL A"],
      [town |-> "TAMPINES", flat_type |-> "3 ROOM", resale_price |-> 300,
       floor_area_sqm |-> 75, storey_range |-> "01 TO 03",
       remaining_lease_years |-> 80, flat_model |-> "STANDARD"],
      [town |-> "BISHAN", flat_type |-> "5 ROOM", resale_price |-> 600,
       floor_area_sqm |-> 120, storey_range |-> "04 TO 06",
       remaining_lease_years |-> 55, flat_model |-> "MODEL A"] }

FlatTables == UNION {[1..n -> FlatRows] : n \in 0..MaxFlats}

ConstraintKeys ==
    { "min_price", "max_price", "towns", "flat_types", "min_floor_area",
      "max_floor_area", "storey_ranges", "min_remaining_lease", "flat_models" }

\* the values a constraints dictionary may carry: a number is <<n>>, JSON null
\* is Null, a list is the sequence of its items
ConstraintValues ==
    [ min_price : {Null, Some(450)},
      max_price : {Some(450)},
      towns : { <<>>, <<"bishan">> },
      flat_types : { <<"4 ROOM">> },
      min_floor_area : {Some(90)},
      max_floor_area : {Some(90)},
      storey_ranges : { <<"04 to 06">> },
      min_remaining_lease : {Some(60)},
      flat_models : { <<"Model A">> } ]

\* the constraints dictionaries: any subset of the keys
ConstraintDicts ==
    { [k \in D |-> f[k]] : f \in ConstraintValues, D \in SUBSET ConstraintKeys }

\* constraints.get(key)
DictGet(constraints, key) ==
    IF key \in DOMAIN constraints THEN constraints[key] ELSE Null

\* pd.Series(True, index=df.index)
AllTrue(df) == [i \in 1..Len(df) |-> TRUE]

\* mask &= other
AndMask(mask, other) == [i \in 1..Len(mask) |-> mask[i] /\ other[i]]

\* df[column] >= bound, df[column] <= bound
AtLeast(df, column, bound) == [i \in 1..Len(df) |-> df[i][column] >= bound]
AtMost(df, column, bound) == [i \in 1..Len(df) |-> df[i][column] <= bound]

\* mutant: the items of the list are compared as given
IsInUppercased_AsGiven(df, column, values) ==
    [i \in 1..Len(df) |->
        \E j \in 1..Len(values) : values[j] = df[i][column]]

\* df[column].isin([v.upper() for v in values])
IsInUppercased(df, column, values) ==
    [i \in 1..Len(df) |->
        \E j \in 1..Len(values) : Upper(values[j]) = df[i][column]]

\* mutant: the lower price bound is exclusive
create_price_mask_Strict(df, min_price, max_price) ==
    LET m1 == IF min_price # Null
              THEN [i \in 1..Len(df) |-> df[i].resale_price > min_price[1]]
              ELSE AllTrue(df)
    IN  IF max_price # Null
        THEN AndMask(m1, AtMost(df, "resale_price", max_price[1]))
        ELSE m1

create_price_mask(df, min_price, max_price) ==
    LET m1 == IF min_price # Null
              THEN AndMask(AllTrue(df), AtLeast(df, "resale_price", min_price[1]))
              ELSE AllTrue(df)
    IN  IF max_price # Null
        THEN AndMask(m1, AtMost(df, "resale_price", max_price[1]))
        ELSE m1

\* "if towns and len(towns) > 0": None and the empty list leave the mask all True
create_towns_mask(df, towns) ==
    IF Len(towns) > 0 THEN IsInUppercased(df, "town", towns) ELSE AllTrue(df)

create_flat_types_mask(df, flat_types) ==
    IF Len(flat_types) > 0 THEN IsInUppercased(df, "flat_type", flat_types)
    ELSE AllTrue(df)

create_floor_area_mask(df, min_area, max_area) ==
    LET m1 == IF min_area # Null
              THEN AndMask(AllTrue(df), AtLeast(df, "floor_area_sqm", min_area[1]))
              ELSE AllTrue(df)
    IN  IF max_area # Null
        THEN AndMask(m1, AtMost(df, "floor_area_sqm", max_area[1]))
        ELSE m1

create_storey_ranges_mask(df, storey_ranges) ==
    IF Len(storey_ranges) > 0
    THEN IsInUppercased(df, "storey_range", storey_ranges)
    ELSE AllTrue(df)

create_remaining_lease_mask(df, min_lease) ==
    IF min_lease # Null THEN AtLeast(df, "remaining_lease_years", min_lease[1])
    ELSE AllTrue(df)

create_flat_models_mask(df, flat_models) ==
    IF Len(flat_models) > 0 THEN IsInUppercased(df, "flat_model", flat_models)
    ELSE AllTrue(df)

\* combined_mask after the seven "if ... in constraints" blocks
CombinedMask(df, constraints) ==
    LET m0 == AllTrue(df)
        m1 == IF "min_price" \in DOMAIN constraints \/ "max_price" \in DOMAIN constraints
              THEN AndMask(m0, create_price_mask(df, DictGet(constraints, "min_price"),
                                                     DictGet(constraints, "max_price")))
              ELSE m0
        m2 == IF "towns" \in DOMAIN constraints
              THEN AndMask(m1, create_towns_mask(df, constraints["towns"]))
              ELSE m1
        m3 == IF "flat_types" \in DOMAIN constraints
              THEN AndMask(m2, create_flat_types_mask(df, constraints["flat_types"]))
              ELSE m2
        m4 == IF "min_floor_area" \in DOMAIN constraints
                 \/ "max_floor_area" \in DOMAIN constraints
              THEN AndMask(m3, create_floor_area_mask(df,
                                   DictGet(constraints, "min_floor_area"),
                                   DictGet(constraints, "max_floor_area")))
              ELSE m3
        m5 == IF "storey_ranges" \in DOMAIN constraints
              THEN AndMask(m4, create_storey_ranges_mask(df, constraints["storey_ranges"]))
              ELSE m4
        m6 == IF "min_remaining_lease" \in DOMAIN constraints
              THEN AndMask(m5, create_remaining_lease_mask(df,
                                   constraints["min_remaining_lease"]))
              ELSE m5
    IN  IF "flat_models" \in DOMAIN constraints
        THEN AndMask(m6, create_flat_models_mask(df, constraints["flat_models"]))
        ELSE m6

RECURSIVE MinOf(_)
MinOf(S) == LET x == CHOOSE y \in S : TRUE
            IN  IF S = {x} THEN x
                ELSE LET m == MinOf(S \ {x}) IN IF x < m THEN x ELSE m

RECURSIVE MaxOf(_)
MaxOf(S) == LET x == CHOOSE y \in S : TRUE
            IN  IF S = {x} THEN x
                ELSE LET m == MaxOf(S \ {x}) IN IF x > m THEN x ELSE m

\* get_filter_statistics: the counts, the price range and the towns present
get_filter_statistics(original_df, filtered_df) ==
    LET prices == {filtered_df[i].resale_price : i \in 1..Len(filtered_df)}
    IN  [total_results |-> Len(filtered_df),
         price_range |-> [min |-> IF Len(filtered_df) > 0 THEN Some(MinOf(prices))
                                  ELSE Null,
                          max |-> IF Len(filtered_df) > 0 THEN Some(MaxOf(prices))
                                  ELSE Null],
         towns_present |-> {filtered_df[i].town : i \in 1..Len(filtered_df)}]

\* csp_filter_flats: (df_filtered, stats); df_filtered = df[combined_mask].copy()
csp_filter_flats(df, constraints) ==
    LET df_filtered == FilterSeq(df, CombinedMask(df, constraints))
    IN  [df_filtered |-> df_filtered,
         stats |-> get_filter_statistics(df, df_filtered)]

InitCsp ==
    /\ NoRun
    /\ pure \in { [fn |-> "csp_filter_flats",
                   arg |-> [df |-> d, constraints |-> c],
                   df |-> d, res |-> Null, done |-> FALSE] :
                      d \in FlatTables, c \in ConstraintDicts }

\* one call csp_filter_flats(df, constraints); the table df is only read
CallCspFilterFlats ==
    /\ pure # Null /\ pure.fn = "csp_filter_flats" /\ ~pure.done
    /\ pure' = [pure EXCEPT !.res = Some(csp_filter_flats(pure.df, pure.arg.constraints)),
                            !.done = TRUE]
    /\ UNCHANGED runVars

SpecCsp == InitCsp /\ [][CallCspFilterFlats]_vars

----------------------------------------------------------------------------
(* get_mrt_with_retry as one call *)

\* mutant: a transport failure of the 2 km request ends the search
get_mrt_with_retry_ErrorEnds(lat, lon, resp2km, resp5km) ==
    LET r1 == find_nearest_mrt(lat, lon, resp2km)
    IN  IF Tier1Returns(r1)
        THEN [raised |-> FALSE, value |-> MrtFound(r1.value[1], 2),
              requests |-> <<Tier1RadiusM>>]
        ELSE IF r1.raised
             THEN [raised |-> FALSE, value |-> NoMrt, requests |-> <<Tier1RadiusM>>]
             ELSE [raised |-> FALSE,
                   value |-> Tier2Result(find_nearest_mrt(lat, lon, resp5km)),
                   requests |-> <<Tier1RadiusM, Tier2RadiusM>>]

\* get_mrt_with_retry(lat, lon) with the service answering resp2km to the
\* 2 km request and resp5km to the 5 km request: the returned dictionary and
\* the radii requested; both except clauses swallow OneMapAPIError
get_mrt_with_retry(lat, lon, resp2km, resp5km) ==
    LET r1 == find_nearest_mrt(lat, lon, resp2km)
    IN  IF Tier1Returns(r1)
        THEN [raised |-> FALSE, value |-> MrtFound(r1.value[1], 2),
              requests |-> <<Tier1RadiusM>>]
        ELSE [raised |-> FALSE,
              value |-> Tier2Result(find_nearest_mrt(lat, lon, resp5km)),
              requests |-> <<Tier1RadiusM, Tier2RadiusM>>]

\* the answers of the proximity service to one request
ProximityAnswers ==
    { [kind |-> "ok", data |-> d] : d \in StationLists }
    \cup { [kind |-> "error", data |-> <<>>] }

InitRetry ==
    /\ NoRun
    /\ pure \in { [fn |-> "get_mrt_with_retry",
                   arg |-> [lat |-> c.lat, lon |-> c.lon, resp2km |-> r2, resp5km |-> r5],
                   res |-> Null, done |-> FALSE] :
                      c \in FlatCoords, r2 \in MrtResponses, r5 \in ProximityAnswers }

\* one call get_mrt_with_retry(lat, lon)
CallGetMrtWithRetry ==
    /\ pure # Null /\ pure.fn = "get_mrt_with_retry" /\ ~pure.done
    /\ pure' = [pure EXCEPT !.res = Some(get_mrt_with_retry(pure.arg.lat, pure.arg.lon,
                                             pure.arg.resp2km, pure.arg.resp5km)),
                            !.done = TRUE]
    /\ UNCHANGED runVars

SpecRetry == InitRetry /\ [][CallGetMrtWithRetry]_vars

----------------------------------------------------------------------------
(* Properties *)

Ended == pc \in {"done", "crashed"}

\* the run is past both processing loops
LoopsDone ==
    \/ pc \in {"merge", "done"}
    \/ pc = "crashed" /\ error = "KeyError"

\* the address keys of the input records
RecordKeys == {KeyedRow(records[i]).address_key : i \in 1..Len(records)}

TraceHas(e, o) == \E i \in 1..Len(trace) : trace[i].ev = e /\ trace[i].out = o

\* C1: no network request is issued for an address key that is in the cache
\* loaded at the start of the run, no lookup sequence is started for it, and
\* when every address key of the input is in the loaded cache the run issues
\* no network request at all.
C1_CachedKeysNeverCalled ==
    /\ \A k \in processed_keys : k \notin netKeys /\ lookups[k] = 0
    /\ (pc \notin {"start", "load"} /\ RecordKeys \subseteq processed_keys)
          => netKeys = {}

\* C1 witness: a completed run in which one key of the input was cached and
\* another one was fetched over the network
C1_Witness ==
    /\ pc = "done"
    /\ RecordKeys \cap processed_keys # {}
    /\ netKeys # {}

\* C2: whatever the records, the cache file (absent, valid or unparseable)
\* and the service's answers, the run never ends with an escaped exception
\* and returns the enriched table together with the statistics.
C2_RunAlwaysCompletes ==
    /\ (pc = "crashed" => cacheFile.state = "notobject")
    /\ (pc = "done" => coverage_stats # Null)

\* C3: the output holds exactly one enriched record per input record, in
\* order, and a record whose address has no cache entry at the end carries
\* null latitude, longitude, nearest_mrt, dist_mrt_km and search_radius_km.
C3_OneOutputRowPerRecord ==
    (Ended /\ cacheFile.state # "notobject") =>
        /\ Len(final_df) = Len(records)
        /\ \A i \in 1..Len(records) :
             /\ final_df[i].block = records[i].block
             /\ final_df[i].street_name = records[i].street_name
             /\ KeyedRow(records[i]).address_key \notin DOMAIN location_cache
                  => /\ final_df[i].latitude = Null
                     /\ final_df[i].longitude = Null
                     /\ final_df[i].nearest_mrt = Null
                     /\ final_df[i].dist_mrt_km = Null
                     /\ final_df[i].search_radius_km = Null

\* the run is inside the processing loops
InBatch == pc \in {"loop", "geocode", "tier1", "tier2", "commit"}

\* the steps of the processing loops
BatchStep ==
    \/ BeginRowA
    \/ NextLoop
    \/ BeginRowB
    \/ GeocodeAttempt
    \/ Tier1
    \/ Tier2
    \/ Commit
    \/ FinishFetch

\* C4: a geocoding failure never aborts the batch: no exception of the
\* service ends the run, every state inside the loops has a next step, and
\* once the loops are over every unique address that was not in the loaded
\* cache has been processed and counted as a success or as a failure.
C4_FailureNeverAbortsBatch ==
    /\ error # "OneMapAPIError"
    /\ (InBatch => ENABLED BatchStep)
    /\ LoopsDone =>
         /\ \A k \in RecordKeys \ processed_keys : lookups[k] >= 1
         /\ stats.total_processed = Len(with_coords) + Len(without_coords)
         /\ stats.geocode_success + stats.geocode_failed = stats.total_processed

\* C4 witness: the run goes on to resolve the second address after the
\* geocoding of the first one has failed
C4_Witness ==
    /\ pc = "commit"
    /\ phase = "B"
    /\ idx = 2
    /\ stats.geocode_failed = 1

\* C5: when none of the k distinct address keys of the records is cached,
\* the lookup sequence is started exactly once per distinct key, k in total,
\* whatever the records per key and the rows of the coordinate table.
C5_OneLookupPerKey ==
    (pc \notin {"start", "load"} /\ RecordKeys \cap processed_keys = {}) =>
        /\ \A k \in RecordKeys : lookups[k] <= 1
        /\ LoopsDone =>
             /\ \A k \in RecordKeys : lookups[k] = 1
             /\ stats.total_processed = Cardinality(RecordKeys)

GeocodeEventsAt == {i \in 1..Len(trace) : trace[i].ev = "geocode"}

RaiseEventsAt == {i \in 1..Len(trace) : trace[i].ev = "raise"}

\* the requests and raises of the geocode_address call of the address in flight
RetryBudgetKept ==
    /\ Cardinality(GeocodeEventsAt) <= 3
    /\ Cardinality(RaiseEventsAt) <= 1
    /\ \A i \in RaiseEventsAt :
         /\ Cardinality({j \in GeocodeEventsAt : j < i}) = 3
         /\ \A j \in GeocodeEventsAt : j < i => trace[j].out = "error"
    /\ \A i \in GeocodeEventsAt :
         (trace[i].out = "error" /\ Cardinality({j \in GeocodeEventsAt : j <= i}) = 3)
            => (i + 1) \in RaiseEventsAt

Raised == RaiseEventsAt # {}

\* C6: geocode_address issues at most 3 requests per call; OneMapAPIError is
\* raised once, after the third failed attempt and never earlier; the step
\* that raises it leaves the run in the loop with geocode_failed one higher.
C6_RetryBudget ==
    [][ /\ RetryBudgetKept'
        /\ (~Raised /\ Raised') =>
              /\ pc' = "loop"
              /\ error' = ""
              /\ idx' = idx + 1
              /\ stats'.geocode_failed = stats.geocode_failed + 1
              /\ location_cache' = location_cache ]_vars

\* C6 witness: three transport failures, the error raised, the run in the loop
C6_Witness ==
    /\ Raised
    /\ pc = "loop"
    /\ stats.geocode_failed >= 1

\* C7: after failed attempt a (a = 0, 1) geocode_address sleeps
\* API_DELAY_SEC * 2^a, that is the base delay and then twice the base delay,
\* strictly increasing; after the failed final attempt it does not sleep.
C7_BackoffDelays ==
    \A i \in GeocodeEventsAt :
        trace[i].out = "error" =>
            /\ i + 1 <= Len(trace)
            /\ trace[i].arg = 0 => trace[i + 1] = Sleep(API_DELAY_SEC)
            /\ trace[i].arg = 1 =>
                 /\ trace[i + 1] = Sleep(2 * API_DELAY_SEC)
                 /\ trace[i - 1].arg < trace[i + 1].arg
            /\ trace[i].arg >= 2 => trace[i + 1].ev # "sleep"

\* C7 witness: two failed attempts, so both backoff delays were slept
C7_Witness ==
    /\ pc = "geocode"
    /\ attempt = 2
    /\ Len(trace) = 4

\* C8: an empty geocoding result makes geocode_address return None at once,
\* with no error and no further attempt; None is returned only after an
\* empty result and the error is raised only after a transport failure.
C8_EmptyResultIsNotFound ==
    /\ \A i \in GeocodeEventsAt :
         trace[i].out = "empty" =>
            /\ i + 1 <= Len(trace)
            /\ trace[i + 1] = Ev("return", trace[i].arg, "None")
            /\ \A j \in GeocodeEventsAt : j <= i
            /\ ~Raised
    /\ \A i \in 1..Len(trace) :
         /\ (trace[i].ev = "return" /\ trace[i].out = "None")
               => trace[i - 1].ev = "geocode" /\ trace[i - 1].out = "empty"
         /\ trace[i].ev = "raise"
               => trace[i - 1].ev = "geocode" /\ trace[i - 1].out = "error"

\* C8 witness: an empty result after a transport failure, the row counted as failed
C8_Witness ==
    /\ pc = "loop"
    /\ TraceHas("geocode", "error")
    /\ TraceHas("geocode", "empty")

MrtEventsAt == {i \in 1..Len(trace) : trace[i].ev = "mrt"}

MrtEvent(radius, outs) ==
    \E i \in MrtEventsAt : trace[i].arg = radius /\ trace[i].out \in outs

\* C9: get_mrt_with_retry returns search_radius_km 2.0 exactly when the 2 km
\* search returned a station, 5.0 exactly when the 2 km search returned none
\* or raised and the 5 km search returned a station, and otherwise three
\* nulls; the three proximity fields are all set or all null.
C9_TierOfResult ==
    pc = "commit" =>
        /\ mrt_data.search_radius_km = Some(2) <=> MrtEvent(Tier1RadiusM, {"found"})
        /\ mrt_data.search_radius_km = Some(5) <=>
              /\ MrtEvent(Tier1RadiusM, {"none", "error"})
              /\ MrtEvent(Tier2RadiusM, {"found"})
        /\ mrt_data.search_radius_km \in {Some(2), Some(5), Null}
        /\ \/ mrt_data = NoMrt
           \/ /\ mrt_data.nearest_mrt # Null
              /\ mrt_data.dist_mrt_km # Null
              /\ mrt_data.search_radius_km # Null

\* C9 witness: the 2 km search raised and the 5 km search found a station
C9_Witness ==
    /\ pc = "commit"
    /\ MrtEvent(Tier1RadiusM, {"error"})
    /\ mrt_data.search_radius_km = Some(5)

\* the proximity requests of one call of get_mrt_with_retry: 2 km first,
\* 5 km second and only after a 2 km search without a station
TierOrderInCall ==
    /\ Cardinality(MrtEventsAt) <= 2
    /\ \A i \in MrtEventsAt :
         IF \A j \in MrtEventsAt : i <= j
         THEN trace[i].arg = Tier1RadiusM
         ELSE /\ trace[i].arg = Tier2RadiusM
              /\ \E j \in MrtEventsAt :
                   j < i /\ trace[j].arg = Tier1RadiusM
                         /\ trace[j].out \in {"none", "error"}

\* C10: for one address the 5 km request is issued only after the 2 km
\* request ended without a station, never after it found one; an address
\* gets at most two proximity requests, 2 km then 5 km.
C10_TwoTiersPerAddress ==
    /\ TierOrderInCall
    /\ \A k \in Keys :
         mrtRadii[k] \in {<<>>, <<Tier1RadiusM>>, <<Tier1RadiusM, Tier2RadiusM>>}

----------------------------------------------------------------------------
(* Claims C11 - C20 *)

\* the distance of station i of the response of the call under test
StationDist(i) ==
    great_circle(pure.arg.lat, pure.arg.lon,
                 pure.arg.resp.data[i].lat, pure.arg.resp.data[i].lon)

NearestCalled ==
    /\ pure # Null /\ pure.fn = "find_nearest_mrt" /\ pure.done
    /\ pure.arg.resp.kind = "ok" /\ pure.arg.resp.data # <<>>

\* C11: for a non-empty station list find_nearest_mrt returns the station at
\* minimal distance over the whole list, and of several stations at that
\* distance the one that comes first in the response.
C11_NearestIsFirstMinimum ==
    NearestCalled =>
        /\ ~pure.res.raised
        /\ pure.res.value # Null
        /\ \E i \in 1..Len(pure.arg.resp.data) :
              /\ pure.res.value[1].name = pure.arg.resp.data[i].name
              /\ pure.res.value[1].distance_km = StationDist(i)
              /\ \A j \in 1..Len(pure.arg.resp.data) : StationDist(j) >= StationDist(i)
              /\ \A j \in 1..(i - 1) : StationDist(j) > StationDist(i)

\* a farther station first, then two different stations at the minimal distance
C11_Witness ==
    /\ NearestCalled
    /\ pure.arg.resp.data = <<Station("ANG MO KIO MRT", 6, 6),
                              Station("BRADDELL MRT", 4, 3),
                              Station("BISHAN MRT", 3, 4)>>
    /\ pure.res.value = Some([name |-> "BRADDELL MRT", distance_km |-> 1])

\* C12: load_cache never ends the run: once the load is over the run goes on
\* with a mapping, which is empty when the file is absent, is not parseable,
\* or parses to something that is no JSON object.
C12_LoadNeverFails ==
    pc \notin {"start", "load"} =>
        /\ error # "AttributeError"
        /\ load_cache(cacheFile).isdict
        /\ cacheFile.state \in {"absent", "corrupt", "notobject"}
              => processed_keys = {}

\* C13: writing a cache mapping with save_cache and reading the file back
\* with load_cache gives the same keys and, per key, the same field values,
\* a null proximity field staying null; so does the file the run has saved.
C13_CacheRoundTrip ==
    /\ LET r == load_cache(save_cache(location_cache))
       IN  /\ r.isdict
           /\ DOMAIN r.cache = DOMAIN location_cache
           /\ \A k \in DOMAIN location_cache : r.cache[k] = location_cache[k]
    /\ pc = "merge" =>
           /\ load_cache(cacheFile).isdict
           /\ load_cache(cacheFile).cache = location_cache

\* the final save has written a loaded entry and an entry of this run
\* that has no station
C13_Witness ==
    /\ pc = "merge"
    /\ cacheFile = save_cache(location_cache)
    /\ Key10 \in processed_keys
    /\ Key20 \in DOMAIN location_cache \ processed_keys
    /\ location_cache[Key10].nearest_mrt # Null
    /\ location_cache[Key20].nearest_mrt = Null
    /\ location_cache[Key20].dist_mrt_km = Null
    /\ location_cache[Key20].search_radius_km = Null

\* what a load_cache of the file returns as entries
Persisted(file) ==
    IF load_cache(file).isdict THEN load_cache(file).cache ELSE EmptyCache

\* C14: whatever happens to the process, an interruption inside save_cache
\* included, no step takes away an entry that the file held after the last
\* completed save: a later load_cache still returns it.
C14_SavedEntriesSurvive ==
    [][\A k \in DOMAIN Persisted(cacheFile) :
           /\ k \in DOMAIN Persisted(cacheFile')
           /\ Persisted(cacheFile')[k] = Persisted(cacheFile)[k]]_vars

\* the keys resolved in memory that no completed save has written to the file
Unsaved == DOMAIN location_cache \ DOMAIN Persisted(cacheFile)

\* C15: at every point of a run at most SaveEvery (100) cache entries are
\* resolved in memory without being persisted by a completed save.
C15_UnsavedBounded == Cardinality(Unsaved) <= SaveEvery

\* the save of row 100 has happened and row 101 is resolved since
C15_Witness ==
    /\ stats.total_processed = SaveEvery + 1
    /\ Cardinality(DOMAIN Persisted(cacheFile)) = SaveEvery
    /\ Cardinality(Unsaved) = 1

\* an entry with a full station result or with an explicit no-result
WholeEntry(e) ==
    \/ e.nearest_mrt # Null /\ e.dist_mrt_km # Null /\ e.search_radius_km # Null
    \/ e.nearest_mrt = Null /\ e.dist_mrt_km = Null /\ e.search_radius_km = Null

\* the proximity search of the address in flight is over: a station was
\* found at 2 km, or the 5 km request has been answered
ProximityCompleted ==
    \/ \E i \in 1..Len(trace) : trace[i] = Ev("mrt", Tier1RadiusM, "found")
    \/ \E i \in 1..Len(trace) : trace[i].ev = "mrt" /\ trace[i].arg = Tier2RadiusM

\* a step that changes the in-memory cache after the load: it stores one entry,
\* for the address in flight, with its coordinates and its proximity result
CommitStep ==
    (pc # "load" /\ location_cache' # location_cache) =>
        /\ pc = "commit"
        /\ cur.lat # Null /\ cur.lon # Null
        /\ ProximityCompleted
        /\ DOMAIN location_cache' = DOMAIN location_cache \cup {cur.key}
        /\ location_cache'[cur.key].latitude = cur.lat[1]
        /\ location_cache'[cur.key].longitude = cur.lon[1]
        /\ location_cache'[cur.key].nearest_mrt = mrt_data.nearest_mrt
        /\ location_cache'[cur.key].dist_mrt_km = mrt_data.dist_mrt_km
        /\ location_cache'[cur.key].search_radius_km = mrt_data.search_radius_km

\* C16: no cache entry is partial: an entry enters the in-memory cache only
\* once the coordinates are there and the proximity search of the address is
\* over, and every entry in memory and in the file has a full station result
\* or an explicit no-result.
C16_EntriesAreWhole ==
    /\ [](/\ \A k \in DOMAIN location_cache : WholeEntry(location_cache[k])
          /\ \A k \in DOMAIN Persisted(cacheFile) : WholeEntry(Persisted(cacheFile)[k]))
    /\ [][CommitStep]_vars

\* the file holds an entry with a station found by this run and a geocoded
\* entry of this run with the explicit no-result
C16_Witness ==
    /\ pc = "merge"
    /\ DOMAIN Persisted(cacheFile) = Keys
    /\ processed_keys = {}
    /\ \E k \in Keys : Persisted(cacheFile)[k].search_radius_km = Some(5)
    /\ \E k \in Keys : /\ Persisted(cacheFile)[k].nearest_mrt = Null
                       /\ Persisted(cacheFile)[k].latitude = 3

\* C17: a run assigns each address key in the cache at most once, and never
\* overwrites, modifies or removes an entry that is in the cache: not one it
\* has loaded, not one it has written.
C17_WrittenOncePerKey ==
    [][/\ pc = "commit" => cur.key \notin DOMAIN location_cache
       /\ pc # "load" => \A k \in DOMAIN location_cache :
                             /\ k \in DOMAIN location_cache'
                             /\ location_cache'[k] = location_cache[k]]_vars

\* no two rows of the coordinate table have the same address key
TableKeysDistinct ==
    \A i, j \in 1..Len(table) : TableKey(table[i]) = TableKey(table[j]) => i = j

\* with at most one table row per address key every key is written once
WrittenOnceWithoutDuplicateRows ==
    [][TableKeysDistinct =>
        /\ pc = "commit" => cur.key \notin DOMAIN location_cache
        /\ pc # "load" => \A k \in DOMAIN location_cache :
                              /\ k \in DOMAIN location_cache'
                              /\ location_cache'[k] = location_cache[k]]_vars

\* an entry of the loaded cache is the same at every later step
LoadedEntriesKept ==
    [][pc # "load" => \A k \in processed_keys :
                          /\ k \in DOMAIN location_cache'
                          /\ location_cache'[k] = location_cache[k]]_vars

KeysOf(rows) == { rows[i].address_key : i \in 1..Len(rows) }

\* the partition of Step 2 has been computed
Partitioned == pc \notin {"start", "load", "step2"} /\ error # "AttributeError"

\* the three classes of unique address keys are pairwise disjoint, cover the
\* unique addresses, and the three reported counts are their sizes
PartitionExact ==
    LET unique == KeysOf(unique_addresses)
        cached == unique \cap processed_keys
        has_coords == KeysOf(with_coords)
        needs_geocode == KeysOf(without_coords)
        already_cached == AlreadyCached(unique_addresses, with_coords, without_coords)
    IN  /\ cached \cap has_coords = {}
        /\ cached \cap needs_geocode = {}
        /\ has_coords \cap needs_geocode = {}
        /\ cached \cup has_coords \cup needs_geocode = unique
        /\ already_cached >= 0
        /\ already_cached = Cardinality(cached)
        /\ Len(with_coords) = Cardinality(has_coords)
        /\ Len(without_coords) = Cardinality(needs_geocode)
        /\ already_cached + Len(with_coords) + Len(without_coords)
               = Len(unique_addresses)

\* C18: the partition of the unique addresses is exact: every unique key is in
\* exactly one of already cached / has external coordinates / needs full
\* geocode, and the three reported counts are non-negative and sum to the
\* number of unique addresses.
C18_PartitionExact == Partitioned => PartitionExact

\* with at most one table row per address key the partition is exact
PartitionExactWithoutDuplicateRows ==
    (Partitioned /\ TableKeysDistinct) => PartitionExact

\* the coordinate table has a row for key k with both latitude and longitude
HasFullMatch(k) ==
    \E j \in 1..Len(table) :
        /\ TableKey(table[j]) = k
        /\ table[j].latitude # Null /\ table[j].longitude # Null

\* no geocoding request for an address with a full match, and the entry this
\* run writes for it carries the coordinates of a matching table row
SkipsGeocoding ==
    /\ HasFullMatch(cur.key) =>
          /\ pc # "geocode"
          /\ \A i \in 1..Len(trace) : trace[i].ev # "geocode"
    /\ \A k \in DOMAIN location_cache \ processed_keys :
          HasFullMatch(k) =>
              \E j \in 1..Len(table) :
                  /\ TableKey(table[j]) = k
                  /\ table[j].latitude = Some(location_cache[k].latitude)
                  /\ table[j].longitude = Some(location_cache[k].longitude)

\* C19: an uncached address with a table match that has both latitude and
\* longitude never triggers a geocoding request, only proximity requests, and
\* its cache entry carries the table's coordinates.
C19_TableMatchSkipsGeocoding == SkipsGeocoding

\* with at most one table row per address key a full match skips geocoding
SkipsGeocodingWithoutDuplicateRows == TableKeysDistinct => SkipsGeocoding

\* output row o carries the fields of cache entry e
FieldsOf(o, e) ==
    /\ o.latitude = Some(e.latitude)
    /\ o.longitude = Some(e.longitude)
    /\ o.nearest_mrt = e.nearest_mrt
    /\ o.dist_mrt_km = e.dist_mrt_km
    /\ o.search_radius_km = e.search_radius_km

NullFields(o) ==
    /\ o.latitude = Null /\ o.longitude = Null /\ o.nearest_mrt = Null
    /\ o.dist_mrt_km = Null /\ o.search_radius_km = Null

\* C20: the final merge joins exactly: the enrichment fields of every output
\* record are those of the cache entry stored under the record's own address
\* key, a record whose key has no entry gets null fields, and no record gets
\* the values of an entry of another key.
C20_JoinExact ==
    pc = "done" =>
        /\ Len(final_df) = Len(records)
        /\ \A i \in 1..Len(records) :
              LET k == KeyedRow(records[i]).address_key
              IN  /\ final_df[i].block = records[i].block
                  /\ final_df[i].street_name = records[i].street_name
                  /\ IF k \in DOMAIN location_cache
                     THEN FieldsOf(final_df[i], location_cache[k])
                     ELSE NullFields(final_df[i])

\* a returned table with a record that has an entry, a second record of the
\* same key, and a record of another key that has none
C20_Witness ==
    /\ pc = "done"
    /\ Len(records) = MaxRecords
    /\ DOMAIN location_cache = {Key10}
    /\ \E i, j, l \in 1..Len(records) :
          /\ i # j
          /\ KeyedRow(records[i]).address_key = Key10
          /\ KeyedRow(records[j]).address_key = Key10
          /\ KeyedRow(records[l]).address_key = Key20
          /\ final_df[i].latitude # Null
          /\ final_df[j] # final_df[i]
          /\ final_df[l].latitude = Null

----------------------------------------------------------------------------
(* Claims C21 - C30 *)

\* the entries the cache file held when the function was called again
PersistedBefore == Persisted(prev[1].file)

\* the enrichment fields of two output rows are the same
SameFields(o1, o2) ==
    /\ o1.latitude = o2.latitude
    /\ o1.longitude = o2.longitude
    /\ o1.nearest_mrt = o2.nearest_mrt
    /\ o1.dist_mrt_km = o2.dist_mrt_km
    /\ o1.search_radius_km = o2.search_radius_km

\* C21: in a second run on the same input, after a first run that returned,
\* raised or was killed, an address whose entry the cache file holds gets no
\* network call and no lookup, its entry stays as it was persisted, in memory
\* and in the file, and its records get the fields the first run gave them.
C21_RerunIdempotent ==
    prev # Null =>
        \A k \in DOMAIN PersistedBefore :
            /\ k \notin netKeys
            /\ lookups[k] = 0
            /\ pc \notin {"start", "load"} =>
                   /\ k \in DOMAIN location_cache
                   /\ location_cache[k] = PersistedBefore[k]
            /\ k \in DOMAIN Persisted(cacheFile)
            /\ Persisted(cacheFile)[k] = PersistedBefore[k]
            /\ (pc = "done" /\ prev[1].ended = "done") =>
                   /\ Len(final_df) = Len(prev[1].final_df)
                   /\ \A i \in 1..Len(records) :
                          KeyedRow(records[i]).address_key = k =>
                              SameFields(final_df[i], prev[1].final_df[i])

\* the first run resolved '10 BISHAN STREET' and failed on another address;
\* the second run has returned, after requests for the other address only
C21_Witness ==
    /\ prev # Null
    /\ prev[1].ended = "done"
    /\ pc = "done"
    /\ prev[1].file.state = "valid"
    /\ DOMAIN PersistedBefore = {Key10}
    /\ RecordKeys = Keys
    /\ netKeys = {Key20}
    /\ final_df # prev[1].final_df

\* the first run was killed after it had saved, and the second run has returned
C21_WitnessInterrupted ==
    /\ prev # Null
    /\ prev[1].ended = "interrupted"
    /\ Key10 \in DOMAIN PersistedBefore
    /\ Key10 \in RecordKeys
    /\ pc = "done"

\* the positions of the network requests in the trace of the address in flight
RequestsAt == {i \in 1..Len(trace) : trace[i].ev \in {"geocode", "mrt"}}

\* requests i < j with no request in between
Consecutive(i, j) ==
    /\ i \in RequestsAt /\ j \in RequestsAt /\ i < j
    /\ \A k \in RequestsAt : ~(i < k /\ k < j)

\* between positions i and j the worker sleeps at least the per-call delay
WaitsBetween(i, j) ==
    \E k \in (i + 1)..(j - 1) :
        trace[k].ev = "sleep" /\ trace[k].arg >= API_DELAY_SEC

\* an address is left with a sleep of at least the per-call delay, so the
\* first request of the next address comes after it
WaitsAfterAddress ==
    (pc = "loop" /\ trace # <<>>) =>
        /\ trace[Len(trace)].ev = "sleep"
        /\ trace[Len(trace)].arg >= API_DELAY_SEC

\* C22: between any two consecutive network requests of a run, within one
\* address and from one address to the next, the worker waits at least the
\* configured per-call delay API_DELAY_SEC.
C22_DelayAfterEveryCall ==
    /\ \A i, j \in RequestsAt : Consecutive(i, j) => WaitsBetween(i, j)
    /\ WaitsAfterAddress

\* every gap but the one between the 2 km and the 5 km request is long enough
DelayExceptBetweenTiers ==
    /\ \A i, j \in RequestsAt :
          (Consecutive(i, j) /\ ~(trace[i].ev = "mrt" /\ trace[j].ev = "mrt"))
              => WaitsBetween(i, j)
    /\ WaitsAfterAddress

\* the unique addresses are known and the cache is loaded
Loaded == pc \notin {"start", "load"}

UncachedKeys == KeysOf(unique_addresses) \ processed_keys

\* C23: without the access token a run with at least one address that is not
\* in the loaded cache fails fast, before any lookup and without any network
\* call; a run whose addresses are all cached completes normally.
C23_TokenRequiredForNetwork ==
    (Headers(token) = {} /\ Loaded) =>
        /\ UncachedKeys # {} =>
              /\ netKeys = {}
              /\ \A k \in Keys : lookups[k] = 0
              /\ pc \notin {"loop", "geocode", "tier1", "tier2", "commit", "merge", "done"}
        /\ (UncachedKeys = {} /\ unique_addresses # <<>> /\ Ended) => pc = "done"

\* without the token a run whose addresses are all cached returns, with no request
CachedOnlyRunCompletes ==
    (Headers(token) = {} /\ Loaded /\ UncachedKeys = {} /\ unique_addresses # <<>>) =>
        /\ netKeys = {}
        /\ pc \in {"step2", "merge", "done"}

\* the output records whose address has no coordinates
RecordsWithoutCoords ==
    CountTrue([i \in 1..Len(final_df) |-> final_df[i].latitude = Null])

\* the counts of the returned statistics
ReportedCounts ==
    LET r == coverage_stats[1]
    IN  { r.total_properties, r.had_existing_coords, r.needed_geocoding,
          r.api_calls_saved, r.total_api_calls_made, r.geocode_success,
          r.geocode_failed, r.total_has_mrt, r.within_2km, r.between_2_5km,
          r.no_mrt_within_5km }

\* C24: the returned statistics contain the number of output records that
\* carry null location fields because their address could not be resolved:
\* one of the reported counts (geocode_failed, the count of records without
\* station data, or any other) equals the number of output records whose
\* address has no coordinates.
C24_ReportCountsUnresolvedRecords ==
    pc = "done" => RecordsWithoutCoords \in ReportedCounts

RECURSIVE SumLen(_, _)
\* the number of proximity requests issued for the keys of S
SumLen(f, S) ==
    IF S = {} THEN 0
    ELSE LET k == CHOOSE x \in S : TRUE
         IN  Len(f[k]) + SumLen(f, S \ {k})

\* C25: the reported total_api_calls_made is the number of network requests
\* the run issued, and the reported api_calls_saved is the number of calls of
\* the call-once-per-transaction baseline minus the calls the run made.
\* Stated for the runs in which both numbers are known: a run that geocoded
\* nothing issued its proximity requests only, and a run that issued no
\* request saved the whole baseline, at least one call per record.
C25_CallCountsReported ==
    pc = "done" =>
        /\ coverage_stats[1].needed_geocoding = 0 =>
               coverage_stats[1].total_api_calls_made = SumLen(mrtRadii, Keys)
        /\ netKeys = {} => coverage_stats[1].api_calls_saved >= Len(records)

\* The scenario: no cached entry, a record of block 10, whose address is in
\* the coordinate table, then a record of block 20, whose address is not and
\* whose geocoding found nothing or failed three times; the service found a
\* station for block 10; the run has ended.
TwoRecordScenario ==
    /\ Ended
    /\ Len(records) = 2
    /\ KeyedRow(records[1]).address_key = Key10
    /\ KeyedRow(records[2]).address_key = Key20
    /\ table = <<Row10a>>
    /\ processed_keys = {}
    /\ error # "AttributeError"
    /\ cur.key = Key20
    /\ TraceHas("return", "None") \/ TraceHas("raise", "OneMapAPIError")
    /\ Key10 \in DOMAIN location_cache
    /\ location_cache[Key10].nearest_mrt # Null

\* C26: in that scenario the run completes; the first record carries the
\* table's coordinates and a station result, the second record is present
\* with null location fields, the cache holds exactly the first address, and
\* the statistics report geocode_failed = 1.
C26_EndToEnd ==
    TwoRecordScenario =>
        /\ pc = "done"
        /\ Len(final_df) = 2
        /\ final_df[1].block = records[1].block
        /\ final_df[1].latitude = Row10a.latitude
        /\ final_df[1].longitude = Row10a.longitude
        /\ final_df[1].nearest_mrt # Null
        /\ final_df[1].dist_mrt_km # Null
        /\ final_df[1].search_radius_km \in {Some(2), Some(5)}
        /\ final_df[2].block = records[2].block
        /\ NullFields(final_df[2])
        /\ DOMAIN location_cache = {Key10}
        /\ DOMAIN Persisted(cacheFile) = {Key10}
        /\ coverage_stats[1].geocode_failed = 1
        /\ coverage_stats[1].geocode_success = 1

\* the scenario with three transport failures for the second address
C26_Witness ==
    /\ TwoRecordScenario
    /\ pc = "done"
    /\ TraceHas("raise", "OneMapAPIError")
    /\ final_df[1].search_radius_km = Some(5)

\* a call of normalise_street_name has returned
Normalised == pure # Null /\ pure.fn = "normalise_street_name" /\ pure.step >= 1

\* C27: normalise_street_name is idempotent: applied to its own result it
\* returns that result unchanged, for every input string; no full form of the
\* abbreviation table is itself a key of the table.
C27_NormaliseIdempotent ==
    /\ \A p \in AbbrevPairs : \A q \in AbbrevPairs : p[2] # q[1]
    /\ (Normalised /\ pure.step >= 2) => pure.again = pure.res

\* "Ave 3" became "AVENUE 3" and stayed so when normalised again
C27_Witness ==
    /\ Normalised /\ pure.step >= 2
    /\ pure.arg.street_name = Some(<<"A","v","e"," ","3">>)
    /\ pure.res = <<"A","V","E","N","U","E"," ","3">>
    /\ pure.again = pure.res

\* s is uppercase, has no whitespace but single spaces between words
UpperCollapsed(s) ==
    /\ \A i \in 1..Len(s) : UpperChar(s[i]) = s[i]
    /\ \A i \in 1..Len(s) :
          s[i] \in Whitespace =>
              /\ s[i] = " "
              /\ 1 < i /\ i < Len(s)
              /\ s[i + 1] \notin Whitespace

\* C28: normalise_street_name returns an uppercase string with whitespace runs
\* collapsed to single spaces and every word that is a key of the abbreviation
\* table replaced by its full form; it returns the empty string for a null or
\* empty input; two street names that differ only in letter case, spacing or
\* an abbreviated versus expanded word normalise to the same string and, with
\* the same block, to one address key and one address to look up.
C28_NormaliseCanonical ==
    Normalised =>
        LET x == pure.arg.street_name
            y == pure.res
        IN  /\ UpperCollapsed(y)
            /\ (x = Null \/ x = Some(<<>>)) => y = <<>>
            /\ x # Null =>
                  LET words == str_split(str_upper(x[1]))
                  IN  /\ Len(str_split(y)) = Len(words)
                      /\ \A i \in 1..Len(words) :
                            str_split(y)[i] =
                                IF \E p \in AbbrevPairs : p[1] = words[i]
                                THEN (CHOOSE p \in AbbrevPairs : p[1] = words[i])[2]
                                ELSE words[i]
            /\ normalise_street_name_chars(pure.arg.other_street_name) = y
            /\ (pure.step = 3 /\ pure.arg.other_block = pure.arg.block) =>
                  /\ Len(pure.unique_addresses) = 1
                  /\ x # Null =>
                        /\ pure.unique_addresses[1].clean_street_name = y
                        /\ pure.unique_addresses[1].address_key =
                               AddressKeyChars(pure.arg.block, y)

\* "St<tab>3" and "STREET<tab>3" with block 10A: one address 10A STREET 3
C28_Witness ==
    /\ Normalised /\ pure.step = 3
    /\ pure.arg.street_name = Some(<<"S","t","\t","3">>)
    /\ pure.arg.other_street_name = Some(<<"S","T","R","E","E","T","\t","3">>)
    /\ pure.arg.other_block = pure.arg.block
    /\ pure.res = <<"S","T","R","E","E","T"," ","3">>
    /\ Len(pure.unique_addresses) = 1

\* C29: the address key is the block joined with the normalised street name,
\* uppercased as a whole: two records whose blocks differ only in letter case
\* and whose street names are equivalent get the same address key.
C29_KeyUppercasedAsAWhole ==
    (Normalised /\ pure.step = 3
        /\ str_upper(pure.arg.other_block) = str_upper(pure.arg.block)) =>
        /\ Len(pure.unique_addresses) = 1
        /\ \A i \in 1..Len(pure.unique_addresses) :
              LET key == pure.unique_addresses[i].address_key
              IN  /\ str_upper(key) = key
                  /\ key = AddressKeyChars(str_upper(pure.arg.block),
                                           pure.unique_addresses[i].clean_street_name)

\* blocks "10A" and "10a" with "Ave 3" and "AVENUE 3": one key 10A AVENUE 3
C29_Witness ==
    /\ Normalised /\ pure.step = 3
    /\ pure.arg.block = <<"1","0","A">>
    /\ pure.arg.other_block = <<"1","0","a">>
    /\ pure.arg.street_name = Some(<<"A","v","e"," ","3">>)
    /\ pure.arg.other_street_name = Some(<<"A","V","E","N","U","E"," ","3">>)
    /\ Len(pure.unique_addresses) = 1
    /\ pure.unique_addresses[1].address_key =
           <<"1","0","A"," ","A","V","E","N","U","E"," ","3">>

\* a call of csp_filter_flats has returned
Filtered == pure # Null /\ pure.fn = "csp_filter_flats" /\ pure.done

\* a numeric bound of the dictionary holds for value (a null bound is no bound)
BoundHolds(c, key, value, isMin) ==
    (key \in DOMAIN c /\ c[key] # Null) =>
        IF isMin THEN value >= c[key][1] ELSE value <= c[key][1]

\* row satisfies every constraint present in c, membership taken literally
SatisfiesEveryPresent(row, c) ==
    /\ BoundHolds(c, "min_price", row.resale_price, TRUE)
    /\ BoundHolds(c, "max_price", row.resale_price, FALSE)
    /\ BoundHolds(c, "min_floor_area", row.floor_area_sqm, TRUE)
    /\ BoundHolds(c, "max_floor_area", row.floor_area_sqm, FALSE)
    /\ BoundHolds(c, "min_remaining_lease", row.remaining_lease_years, TRUE)
    /\ "towns" \in DOMAIN c =>
          \E j \in 1..Len(c["towns"]) : c["towns"][j] = row.town
    /\ "flat_types" \in DOMAIN c =>
          \E j \in 1..Len(c["flat_types"]) : c["flat_types"][j] = row.flat_type
    /\ "storey_ranges" \in DOMAIN c =>
          \E j \in 1..Len(c["storey_ranges"]) : c["storey_ranges"][j] = row.storey_range
    /\ "flat_models" \in DOMAIN c =>
          \E j \in 1..Len(c["flat_models"]) : c["flat_models"][j] = row.flat_model

\* the rows of df that satisfy P, in their order (mask gives P per position)
RowsWhere(df, mask) == FilterSeq(df, mask)

\* C30 as stated: csp_filter_flats returns exactly the rows that satisfy every
\* constraint present in the dictionary (inclusive bounds, list membership),
\* in their original order; all rows for the empty dictionary; the input
\* table is not modified.
C30_ExactlyTheSatisfyingRows ==
    Filtered =>
        LET df == pure.arg.df
            c == pure.arg.constraints
        IN  /\ pure.res[1].df_filtered =
                   RowsWhere(df, [i \in 1..Len(df) |-> SatisfiesEveryPresent(df[i], c)])
            /\ DOMAIN c = {} => pure.res[1].df_filtered = df
            /\ pure.df = df

\* a list constraint binds when the list is not empty, and a row's value
\* matches an item when it equals the item uppercased
ListHolds(c, key, value) ==
    (key \in DOMAIN c /\ Len(c[key]) > 0) =>
        \E j \in 1..Len(c[key]) : Upper(c[key][j]) = value

SatisfiesEveryEffective(row, c) ==
    /\ BoundHolds(c, "min_price", row.resale_price, TRUE)
    /\ BoundHolds(c, "max_price", row.resale_price, FALSE)
    /\ BoundHolds(c, "min_floor_area", row.floor_area_sqm, TRUE)
    /\ BoundHolds(c, "max_floor_area", row.floor_area_sqm, FALSE)
    /\ BoundHolds(c, "min_remaining_lease", row.remaining_lease_years, TRUE)
    /\ ListHolds(c, "towns", row.town)
    /\ ListHolds(c, "flat_types", row.flat_type)
    /\ ListHolds(c, "storey_ranges", row.storey_range)
    /\ ListHolds(c, "flat_models", row.flat_model)

\* C30, amended: csp_filter_flats returns exactly the rows that satisfy every
\* constraint of the dictionary whose value is neither null nor an empty list
\* (inclusive bounds; list membership after uppercasing the list's items), in
\* their original order; all rows for the empty dictionary; the input table is
\* not modified.
C30_ExactlyTheRowsOfEffectiveConstraints ==
    Filtered =>
        LET df == pure.arg.df
            c == pure.arg.constraints
        IN  /\ pure.res[1].df_filtered =
                   RowsWhere(df, [i \in 1..Len(df) |-> SatisfiesEveryEffective(df[i], c)])
            /\ pure.res[1].stats.total_results = Len(pure.res[1].df_filtered)
            /\ DOMAIN c = {} => pure.res[1].df_filtered = df
            /\ pure.df = df

\* min_price 450 and towns ['bishan'] on a table of three rows: the Bishan
\* rows at 450 and 600 are returned in their order
C30_Witness ==
    /\ Filtered
    /\ Len(pure.arg.df) = 3
    /\ pure.arg.df[1].town = "TAMPINES"
    /\ pure.arg.df[2].resale_price = 600
    /\ pure.arg.df[3].resale_price = 450
    /\ DOMAIN pure.arg.constraints = {"min_price", "towns"}
    /\ pure.arg.constraints["min_price"] = Some(450)
    /\ pure.arg.constraints["towns"] = <<"bishan">>
    /\ pure.res[1].df_filtered = <<pure.arg.df[2], pure.arg.df[3]>>

----------------------------------------------------------------------------
(* Claims C31 - C38 *)

ListKeys == {"towns", "flat_types", "storey_ranges", "flat_models"}

\* the dictionary c with the items of its list constraints in upper case
UppercasedLists(c) ==
    [k \in DOMAIN c |->
        IF k \in ListKeys THEN [j \in 1..Len(c[k]) |-> Upper(c[k][j])] ELSE c[k]]

\* C31: categorical constraints are matched case-insensitively with respect
\* to the constraint values: a list of towns, flat types, storey ranges or flat
\* models given in lower or mixed case selects exactly the rows that the same
\* list in upper case selects.
C31_ListCaseInsensitive ==
    Filtered =>
        pure.res[1].df_filtered =
            csp_filter_flats(pure.arg.df,
                             UppercasedLists(pure.arg.constraints)).df_filtered

\* towns ['bishan'], storey_ranges ['04 to 06'] and flat_models ['Model A']
\* select the Bishan row of a table that also has a Tampines row
C31_Witness ==
    /\ Filtered
    /\ DOMAIN pure.arg.constraints = {"towns", "storey_ranges", "flat_models"}
    /\ pure.arg.constraints["towns"] = <<"bishan">>
    /\ UppercasedLists(pure.arg.constraints) # pure.arg.constraints
    /\ Len(pure.arg.df) = 2
    /\ pure.arg.df[1].town = "TAMPINES"
    /\ pure.arg.df[2].town = "BISHAN"
    /\ pure.res[1].df_filtered = <<pure.arg.df[2]>>

TransportFailure == [kind |-> "error", data |-> <<>>]
EmptyResult == [kind |-> "ok", data |-> <<>>]

\* a call of get_mrt_with_retry has returned
Retried == pure # Null /\ pure.fn = "get_mrt_with_retry" /\ pure.done

\* C32: a transport failure of the 2 km proximity request has the same outcome
\* as an empty 2 km result: get_mrt_with_retry never raises, it goes on to the
\* 5 km request either way, and for the same 5 km response it returns the same
\* result in both cases.
C32_FailureLikeEmptyAtTier1 ==
    Retried =>
        /\ ~pure.res[1].raised
        /\ pure.arg.resp2km \in {TransportFailure, EmptyResult} =>
              LET other == IF pure.arg.resp2km = TransportFailure
                           THEN EmptyResult ELSE TransportFailure
              IN  /\ pure.res[1].requests = <<Tier1RadiusM, Tier2RadiusM>>
                  /\ pure.res[1] = get_mrt_with_retry(pure.arg.lat, pure.arg.lon,
                                                      other, pure.arg.resp5km)

\* the 2 km request failed and the 5 km request found two stations: the
\* nearer one is returned with radius 5
C32_Witness ==
    /\ Retried
    /\ pure.arg.resp2km = TransportFailure
    /\ pure.arg.resp5km.kind = "ok" /\ Len(pure.arg.resp5km.data) = 2
    /\ pure.res[1].value.search_radius_km = Some(5)
    /\ pure.res[1].value.nearest_mrt # Null

\* the step in which the geocoding of the address in progress ends in failure
\* (OneMapAPIError after the last retry, or no result)
GeocodeFails == pc = "geocode" /\ pc' = "loop"

\* what a failed geocoding does: one more geocode_failed, no proximity
\* request, no cache entry for the address in memory or in the file
FailureUncached ==
    GeocodeFails =>
        /\ stats'.geocode_failed = stats.geocode_failed + 1
        /\ stats'.geocode_success = stats.geocode_success
        /\ mrtRadii' = mrtRadii
        /\ location_cache' = location_cache
        /\ cur.key \notin DOMAIN location_cache'
        /\ cur.key \notin DOMAIN load_cache(cacheFile').cache

\* C33: each address whose geocoding fails increments geocode_failed by
\* exactly one, issues no proximity request and writes no cache entry; the
\* address stays uncached, so that the next run attempts it again.
C33_FailedAddressStaysUncached == [][FailureUncached]_vars

\* with at most one table row per address key a failed address stays uncached
FailureUncachedWithoutDuplicateRows ==
    [][TableKeysDistinct => FailureUncached]_vars

\* the counting and the absence of requests and writes hold for every row
FailureCountedOncePerRow ==
    [][GeocodeFails =>
        /\ stats'.geocode_failed = stats.geocode_failed + 1
        /\ mrtRadii' = mrtRadii
        /\ location_cache' = location_cache]_vars

\* both proximity requests of the address in progress ended in a transport failure
BothTiersFailed ==
    MrtEvent(Tier1RadiusM, {"error"}) /\ MrtEvent(Tier2RadiusM, {"error"})

\* neither request gave a station: each failed or found none
NoStationEitherWay ==
    /\ MrtEvent(Tier1RadiusM, {"error", "none"})
    /\ MrtEvent(Tier2RadiusM, {"error", "none"})

\* the commit of an address without a station: an entry with the coordinates
\* and null proximity fields, counted as a success and as no_mrt, whatever
\* the reason no station was returned
CommittedAsNoMrt ==
    (pc = "commit" /\ pc' = "loop" /\ NoStationEitherWay) =>
        /\ cur.key \in DOMAIN location_cache'
        /\ location_cache'[cur.key] =
               Entry(cur.block, cur.street, cur.lat[1], cur.lon[1], NoMrt)
        /\ stats'.geocode_success = stats.geocode_success + 1
        /\ stats'.no_mrt = stats.no_mrt + 1
        /\ stats'.geocode_failed = stats.geocode_failed

\* after the loops of the first call the file holds the cache of the run
SavedAfterLoops ==
    (prev = Null /\ pc \in {"merge", "done"}) =>
        load_cache(cacheFile).cache = location_cache

\* the second call issues no proximity request for a key of the file it loads
NoSearchForPersisted ==
    (prev # Null /\ pc \notin {"start", "load"}) =>
        \A k \in DOMAIN load_cache(prev[1].file).cache :
            k \in Keys => mrtRadii[k] = <<>> /\ lookups[k] = 0

\* C34: an address whose 2 km and 5 km proximity requests both end in
\* transport failures is committed to the cache with null proximity fields and
\* counted as no_mrt, exactly as a genuine no-station result; the entry is in
\* the file when the loops are over, and a later run does not repeat a
\* proximity search for an address of the file.
C34_DoubleFailureCachedAsNoMrt ==
    /\ [][CommittedAsNoMrt]_vars
    /\ [](SavedAfterLoops /\ NoSearchForPersisted)

\* both requests failed and the address has just been committed without a station
C34_Witness ==
    /\ pc = "loop" /\ prev = Null
    /\ BothTiersFailed
    /\ cur.key \in DOMAIN location_cache
    /\ location_cache[cur.key].nearest_mrt = Null
    /\ location_cache[cur.key].search_radius_km = Null
    /\ stats.no_mrt = 1

\* the run is between two loop iterations or past the loops
BetweenIterations ==
    \/ pc \in {"loop", "merge", "done"}
    \/ pc = "crashed" /\ error = "KeyError"

\* the three sums of the run counters
CountersConsistent ==
    /\ stats.total_processed = stats.has_coords + stats.no_coords
    /\ stats.geocode_success + stats.geocode_failed = stats.total_processed
    /\ stats.mrt_2km + stats.mrt_5km + stats.no_mrt = stats.geocode_success

\* the unique addresses of the input that are not in the loaded cache
UncachedUnique == KeysOf(unique_addresses) \ processed_keys

\* C35: after every iteration of the processing loops total_processed =
\* has_coords + no_coords, geocode_success + geocode_failed = total_processed
\* and mrt_2km + mrt_5km + no_mrt = geocode_success; at the end of the run
\* total_processed is the number of unique addresses that were not in the
\* loaded cache.
C35_CountersAddUp ==
    /\ BetweenIterations => CountersConsistent
    /\ (LoopsDone /\ error # "AttributeError") =>
          stats.total_processed = Cardinality(UncachedUnique)

\* the three sums hold after every iteration, whatever the table
CountersConsistentAlways == BetweenIterations => CountersConsistent

\* with at most one table row per address key total_processed counts the
\* uncached unique addresses
CountersAddUpWithoutDuplicateRows ==
    (TableKeysDistinct /\ LoopsDone /\ error # "AttributeError") =>
        stats.total_processed = Cardinality(UncachedUnique)

\* the keys this run has written
WrittenKeys == DOMAIN location_cache \ processed_keys

\* C36: every entry is stored under the key block + ' ' + street_name of its
\* own fields, so the key the final merge recomputes from an entry equals the
\* key it is stored under, and the merge sees at most one entry per address key.
C36_StoredUnderOwnKey ==
    /\ \A k \in DOMAIN location_cache :
          AddressKey(location_cache[k].block, location_cache[k].street_name) = k
    /\ \A f \in LocationFeatures(location_cache) :
          \A g \in LocationFeatures(location_cache) :
              f.address_key = g.address_key => f = g

\* a returned run that wrote the entries of both addresses
C36_Witness ==
    /\ pc = "done"
    /\ WrittenKeys = {Key10, Key20}
    /\ Cardinality(LocationFeatures(location_cache)) = 2
    /\ Len(final_df) = Len(records)

\* the words of the road names of the coordinate table
RoadWords(road_name) ==
    CASE road_name = "BISHAN ST"     -> <<"BISHAN", "ST">>
      [] road_name = "BISHAN STREET" -> <<"BISHAN", "STREET">>

\* the canonical address key of a table row: its road name normalised as the
\* street names of the records are
CanonicalTableKey(row) ==
    AddressKey(row.blk_no, normalise_street_name(RoadWords(row.road_name)))

\* the table has a row with both coordinates for an address equivalent to k
HasEquivalentMatch(k) ==
    \E j \in 1..Len(table) :
        /\ CanonicalTableKey(table[j]) = k
        /\ table[j].latitude # Null /\ table[j].longitude # Null

\* an uncached address with an equivalent table row is proximity-only and is
\* not geocoded
EquivalentRowsMatch ==
    /\ Partitioned =>
          \A k \in KeysOf(unique_addresses) \ processed_keys :
              HasEquivalentMatch(k) =>
                  /\ k \in KeysOf(with_coords)
                  /\ k \notin KeysOf(without_coords)
    /\ HasEquivalentMatch(cur.key) =>
          /\ pc # "geocode"
          /\ \A i \in 1..Len(trace) : trace[i].ev # "geocode"

\* C37: the coordinate table is matched on the same canonical address key as
\* the records: a table row and a record that refer to equivalent addresses
\* (abbreviated versus expanded street name, same block) match, so the address
\* is classified as proximity-only and is not geocoded.
C37_TableMatchedOnCanonicalKey == EquivalentRowsMatch

\* every road name of the table is already in its normalised form
TableCanonical ==
    \A j \in 1..Len(table) : CanonicalTableKey(table[j]) = TableKey(table[j])

\* a table whose road names are written out in full, one row per address,
\* matches as stated
CanonicalTableMatches ==
    (TableCanonical /\ TableKeysDistinct) => EquivalentRowsMatch

\* total_to_process of Step 2
TotalToProcess == Len(with_coords) + Len(without_coords)

\* the loops are over and the merge has not raised
AfterLoops == pc \in {"merge", "done"} \/ (pc = "crashed" /\ error = "KeyError")

\* after the loops of a run with something to process the file is the cache
\* in memory as save_cache writes it, and reading it back gives that cache
FileEqualsCache ==
    (AfterLoops /\ TotalToProcess > 0) =>
        /\ cacheFile = save_cache(location_cache)
        /\ load_cache(cacheFile).cache = location_cache
        /\ WrittenKeys \subseteq DOMAIN load_cache(cacheFile).cache

\* no step of a run with nothing to process changes the file, and neither do
\* the steps before the loops or the merge
NoWriteWithoutWork ==
    (pc \in {"start", "load", "step2", "merge"} \/ TotalToProcess = 0) =>
        cacheFile' = cacheFile

\* C38: when a run that had at least one address to process reaches the end of
\* the processing loops the cache file equals the cache in memory, so every
\* entry resolved in the run is on disk before the merge starts; a run with
\* nothing to process performs no cache write.
C38_SavedBeforeMerge == [](FileEqualsCache) /\ [][NoWriteWithoutWork]_vars

\* the loops of a run that started without a cache file are over, one address
\* was resolved and the file holds it
C38_Witness ==
    /\ pc = "merge"
    /\ processed_keys = {}
    /\ WrittenKeys = {Key10}
    /\ cacheFile.state = "valid"
    /\ DOMAIN load_cache(cacheFile).cache = {Key10}

====
